---- MODULE Spec2Model ----
(***************************************************************************)
(* SciTrace: the save-all-changes cascade (routes/api/dataflow_api.py, and *)
(* its predecessor routes/api_old.py) and the single-file restore          *)
(* (services/git_operations.py), as state machines over the external       *)
(* commands they run.  Every subprocess.run of the source is one step; its *)
(* outcome is drawn from Outcomes and recorded in calls.                   *)
(***************************************************************************)
EXTENDS Integers, Sequences, FiniteSets, TLC

VARIABLES
    impl,               \* which save_all_changes runs: "new" (dataflow_api.py) or "old" (api_old.py)
    pc,                 \* position of the running handler; "idle" before, "done" after
    calls,              \* the subprocess.run invocations so far, in order
    response,           \* the handler's return value (NoResponse until it returns)
    status_out,         \* status_result.stdout, as a sequence of status lines
    save_attempts,      \* the save_attempts list
    result,             \* the local `result` of save_all_changes
    subdataset_changes, \* the unit names parsed from the status report
    idx,                \* loop position in subdataset_changes
    commits,            \* the dataset's history: the tree of each revision, oldest first
    index,              \* the plain-VCS index
    worktree,           \* the working tree
    file_path,          \* restore_file_to_commit's file_path
    commit_hash,        \* restore_file_to_commit's commit_hash
    porcelain,          \* whether `git status --porcelain` printed anything
    snapshot,           \* commits, index and worktree as restore found them
    dataset,            \* the dataset directory on disk: its top-level entries in os.listdir order
    has_git,            \* whether <dataset_path>/.git exists
    has_datalad,        \* whether <dataset_path>/.datalad exists
    git_out,            \* how the git executable behaves during the call
    datalad_out,        \* how the datalad executable behaves during the call
    file_tree,          \* create_dataflow_from_dataset's file_tree
    item_idx,           \* position of `for item in file_tree`
    nodes,              \* create_dataflow_from_dataset's nodes list
    directory_nodes,    \* its directory_nodes dict, as <<name, id>> pairs in insertion order
    node_id,            \* its node_id counter
    prev_nodes,         \* the nodes list an earlier create_dataflow_from_dataset call returned
    history             \* the commits `git log` lists for the dataset, newest first

saveVars == <<impl, status_out, save_attempts, result, subdataset_changes, idx>>

restoreVars == <<commits, index, worktree, file_path, commit_hash, porcelain, snapshot>>

graphVars == <<dataset, has_git, has_datalad, git_out, datalad_out,
               file_tree, item_idx, nodes, directory_nodes, node_id, prev_nodes>>

logVars == <<history>>

vars == <<pc, calls, response, saveVars, restoreVars, graphVars, logVars>>

-----------------------------------------------------------------------------
(* Bounds *)

MaxLines == 2

-----------------------------------------------------------------------------
(* The outcome of one subprocess.run: exit code 0, a non-zero exit code, or *)
(* a FileNotFoundError raised before the process runs, for an absent        *)
(* executable ("notfound") or a missing cwd ("nocwd").  No call passes      *)
(* timeout=, so subprocess.TimeoutExpired is never raised.                  *)
Outcomes == {"ok", "nonzero", "notfound", "nocwd"}

\* subprocess.run raised instead of returning a CompletedProcess; with
\* check=True a non-zero exit raises CalledProcessError, handled apart.
Raises(o) == o \in {"notfound", "nocwd"}

Names == {"r4", "sub1", "r4b"}

\* One line of `datalad status` output: "<state>: <path> (<type>)".
StatusLines == [state : {"modified", "untracked"}, path : Names, type : {"dataset", "file"}]

Range(s) == {s[i] : i \in 1..Len(s)}

\* A status report names each path at most once.
StatusReports ==
    {s \in UNION {[1..n -> StatusLines] : n \in 0..MaxLines} :
        \A i, j \in 1..Len(s) : i # j => s[i].path # s[j].path}

\* 'r4' in <text>, for the names of the model.
ContainsR4(name) == name \in {"r4", "r4b"}

Call(argv, cwd, target, stage, o) ==
    [argv |-> argv, cwd |-> cwd, target |-> target, stage |-> stage, out |-> o]

Root == "."

WriteCommands == {"datalad save -r", "datalad save", "git checkout", "git add", "git commit"}

IsWrite(c) == c.argv \in WriteCommands

NoResponse ==
    [code |-> 0, success |-> FALSE, message |-> "", warning |-> FALSE,
     has_attempts |-> FALSE, attempts |-> <<>>]

Entry(label, unit, verdict) == <<label, unit, verdict>>

-----------------------------------------------------------------------------
(* save_all_changes, dataflow_api.py *)

\* `not status_result.stdout.strip()`
NoChangesMut(stdout) == FALSE
NoChanges(stdout) == Len(stdout) = 0

ErrStatusFailed ==
    [code |-> 500, success |-> FALSE, message |-> "Failed to check dataset status",
     warning |-> FALSE, has_attempts |-> FALSE, attempts |-> <<>>]

RespNoChanges ==
    [code |-> 200, success |-> TRUE, message |-> "No changes to save",
     warning |-> FALSE, has_attempts |-> FALSE, attempts |-> <<>>]

\* the final return
RespAllSaved(attempts) ==
    [code |-> 200, success |-> TRUE, message |-> "All changes have been saved to DataLad",
     warning |-> FALSE, has_attempts |-> TRUE, attempts |-> attempts]

\* Approach 5: graceful degradation
RespDegraded(attempts) ==
    [code |-> 200, success |-> TRUE,
     message |-> "Some changes may not have been saved due to persistent subdataset issues",
     warning |-> TRUE, has_attempts |-> TRUE, attempts |-> attempts]

\* except Exception as e3
RespAllFailed(attempts) ==
    [code |-> 500, success |-> FALSE, message |-> "All save attempts failed",
     warning |-> FALSE, has_attempts |-> TRUE, attempts |-> attempts]

\* the outermost except Exception
RespUnexpected(attempts) ==
    [code |-> 500, success |-> FALSE, message |-> "Unexpected error saving changes",
     warning |-> FALSE, has_attempts |-> TRUE, attempts |-> attempts]

\* the loop over status_lines
RECURSIVE ParseSubdatasetChanges(_)
ParseSubdatasetChanges(lines) ==
    IF Len(lines) = 0 THEN <<>>
    ELSE LET line == Head(lines)
             rest == ParseSubdatasetChanges(Tail(lines))
         IN  IF line.state = "modified" /\ line.type = "dataset"
             THEN <<line.path>> \o rest
             ELSE rest

\* 'r4' in status_result.stdout
R4InStatus(stdout) == \E i \in 1..Len(stdout) : ContainsR4(stdout[i].path)

Return(resp) == pc' = "done" /\ response' = resp

\* entering the handler: the request's dataflow has a dataset_path or not
StartSaveNew ==
    /\ pc \in {"idle", "done"}
    /\ impl' = "new"
    /\ calls' = <<>>
    /\ save_attempts' = <<>>
    /\ result' = "None"
    /\ subdataset_changes' = <<>>
    /\ idx' = 1
    /\ status_out' = <<>>
    /\ UNCHANGED <<restoreVars, graphVars, logVars>>
    /\ \E has_path \in BOOLEAN :
         IF has_path
         THEN pc' = "n_status" /\ response' = NoResponse
         ELSE Return([NoResponse EXCEPT !.code = 404, !.message = "No dataset path found"])

\* subprocess.run(['datalad', 'status']) and the two early returns
NewStatus ==
    /\ pc = "n_status"
    /\ \E o \in Outcomes, out \in StatusReports :
         /\ calls' = Append(calls, Call("datalad status", Root, "", 0, o))
         /\ status_out' = IF o = "ok" THEN out ELSE <<>>
         /\ CASE Raises(o) -> Return(RespUnexpected(<<>>))
              [] o = "nonzero" -> Return(ErrStatusFailed)
              [] o = "ok" ->
                   IF NoChanges(out)
                   THEN Return(RespNoChanges)
                   ELSE pc' = "n_recursive" /\ response' = response
    /\ UNCHANGED <<impl, save_attempts, result, subdataset_changes, idx>>
    /\ UNCHANGED <<restoreVars, graphVars, logVars>>

\* save_attempts.append("Regular save: SUCCESS")
LogRegularSuccessMut(attempts) == attempts
LogRegularSuccess(attempts) == Append(attempts, Entry("Regular save", "", "SUCCESS"))

\* Approach 4 is entered by `if 'r4' in status_result.stdout`; otherwise the
\* nested handlers end and control reaches the final return.
NewStage4(attempts) ==
    IF R4InStatus(status_out)
    THEN pc' = "n_git_add" /\ response' = response
    ELSE Return(RespAllSaved(attempts))

\* `for subdataset in subdataset_changes`: the next iteration, or the loop's end
NewLoop(i, subs, attempts) ==
    IF i <= Len(subs)
    THEN pc' = "n_sub_inside" /\ response' = response
    ELSE NewStage4(attempts)

\* Approach 1: datalad save -r
NewRecursive ==
    /\ pc = "n_recursive"
    /\ \E o \in Outcomes :
         /\ calls' = Append(calls, Call("datalad save -r", Root, "", 1, o))
         /\ CASE o = "ok" ->
                   /\ result' = "recursive"
                   /\ save_attempts' = Append(save_attempts, Entry("Recursive save", "", "SUCCESS"))
                   /\ Return(RespAllSaved(save_attempts'))
              [] o = "nonzero" ->
                   /\ result' = result
                   /\ save_attempts' = Append(save_attempts, Entry("Recursive save", "", "FAILED"))
                   /\ pc' = "n_regular" /\ response' = response
              [] Raises(o) ->
                   /\ UNCHANGED <<result, save_attempts>>
                   /\ Return(RespUnexpected(save_attempts))
    /\ UNCHANGED <<impl, status_out, subdataset_changes, idx>>
    /\ UNCHANGED <<restoreVars, graphVars, logVars>>

\* Approach 2: datalad save; on failure the status report is parsed and
\* Approach 3 begins
NewRegular ==
    /\ pc = "n_regular"
    /\ \E o \in Outcomes :
         /\ calls' = Append(calls, Call("datalad save", Root, "", 2, o))
         /\ CASE o = "ok" ->
                   /\ result' = "regular"
                   /\ save_attempts' = LogRegularSuccess(save_attempts)
                   /\ UNCHANGED <<subdataset_changes, idx>>
                   /\ Return(RespAllSaved(save_attempts'))
              [] o = "nonzero" ->
                   /\ result' = result
                   /\ save_attempts' = Append(save_attempts, Entry("Regular save", "", "FAILED"))
                   /\ subdataset_changes' = ParseSubdatasetChanges(status_out)
                   /\ idx' = 1
                   /\ NewLoop(1, subdataset_changes', save_attempts')
              [] Raises(o) ->
                   /\ UNCHANGED <<result, save_attempts, subdataset_changes, idx>>
                   /\ Return(RespUnexpected(save_attempts))
    /\ UNCHANGED <<impl, status_out>>
    /\ UNCHANGED <<restoreVars, graphVars, logVars>>

\* Approach 3, first half: `if os.path.exists(subdataset_path)` and the save
\* run from inside the subdataset
NewSubInside ==
    /\ pc = "n_sub_inside"
    /\ LET subdataset == subdataset_changes[idx] IN
       \E exists \in BOOLEAN, o \in Outcomes :
         IF ~exists
         THEN /\ o = "ok"
              /\ UNCHANGED <<calls, save_attempts>>
              /\ idx' = idx + 1
              /\ NewLoop(idx + 1, subdataset_changes, save_attempts)
         ELSE /\ calls' = Append(calls, Call("datalad save", subdataset, "", 3, o))
              /\ CASE o = "ok" ->
                        /\ save_attempts' =
                             Append(save_attempts, Entry("Subdataset save", subdataset, "SUCCESS"))
                        /\ idx' = idx + 1
                        /\ NewLoop(idx + 1, subdataset_changes, save_attempts')
                   [] o = "nonzero" ->
                        /\ UNCHANGED <<save_attempts, idx>>
                        /\ pc' = "n_sub_ref" /\ response' = response
                   [] Raises(o) ->
                        /\ save_attempts' =
                             Append(save_attempts, Entry("Individual subdataset save", "", "FAILED"))
                        /\ idx' = idx
                        /\ Return(RespAllFailed(save_attempts'))
    /\ UNCHANGED <<impl, status_out, result, subdataset_changes>>
    /\ UNCHANGED <<restoreVars, graphVars, logVars>>

\* Approach 3, second half (the except branch of the inside save): the save
\* of the subdataset reference from the parent
NewSubRef ==
    /\ pc = "n_sub_ref"
    /\ LET subdataset == subdataset_changes[idx] IN
       \E o \in Outcomes :
         /\ calls' = Append(calls, Call("datalad save", Root, subdataset, 3, o))
         /\ CASE o = "ok" ->
                   /\ save_attempts' =
                        Append(save_attempts, Entry("Subdataset reference save", subdataset, "SUCCESS"))
                   /\ idx' = idx + 1
                   /\ NewLoop(idx + 1, subdataset_changes, save_attempts')
              [] o = "nonzero" ->
                   /\ save_attempts' =
                        Append(save_attempts, Entry("Subdataset save", subdataset, "FAILED"))
                   /\ idx' = idx + 1
                   /\ NewLoop(idx + 1, subdataset_changes, save_attempts')
              [] Raises(o) ->
                   /\ save_attempts' =
                        Append(save_attempts, Entry("Individual subdataset save", "", "FAILED"))
                   /\ idx' = idx
                   /\ Return(RespAllFailed(save_attempts'))
    /\ UNCHANGED <<impl, status_out, result, subdataset_changes>>
    /\ UNCHANGED <<restoreVars, graphVars, logVars>>

\* Approach 4: git add r4
NewGitAdd ==
    /\ pc = "n_git_add"
    /\ \E o \in Outcomes :
         /\ calls' = Append(calls, Call("git add", Root, "r4", 4, o))
         /\ CASE o = "ok" ->
                   /\ save_attempts' = save_attempts
                   /\ pc' = "n_git_commit" /\ response' = response
              [] o = "nonzero" ->
                   /\ save_attempts' =
                        Append(save_attempts, Entry("Force git add/commit", "r4", "FAILED"))
                   /\ Return(RespDegraded(save_attempts'))
              [] Raises(o) ->
                   /\ save_attempts' =
                        Append(save_attempts, Entry("Individual subdataset save", "", "FAILED"))
                   /\ Return(RespAllFailed(save_attempts'))
    /\ UNCHANGED <<impl, status_out, result, subdataset_changes, idx>>
    /\ UNCHANGED <<restoreVars, graphVars, logVars>>

\* Approach 4: git commit, then Approach 5 or the final return
NewGitCommit ==
    /\ pc = "n_git_commit"
    /\ \E o \in Outcomes :
         /\ calls' = Append(calls, Call("git commit", Root, "", 4, o))
         /\ CASE o = "ok" ->
                   /\ save_attempts' =
                        Append(save_attempts, Entry("Force git add/commit", "r4", "SUCCESS"))
                   /\ Return(RespAllSaved(save_attempts'))
              [] o = "nonzero" ->
                   /\ save_attempts' =
                        Append(save_attempts, Entry("Force git add/commit", "r4", "FAILED"))
                   /\ Return(RespDegraded(save_attempts'))
              [] Raises(o) ->
                   /\ save_attempts' =
                        Append(save_attempts, Entry("Individual subdataset save", "", "FAILED"))
                   /\ Return(RespAllFailed(save_attempts'))
    /\ UNCHANGED <<impl, status_out, result, subdataset_changes, idx>>
    /\ UNCHANGED <<restoreVars, graphVars, logVars>>

SaveAllChangesNew ==
    \/ StartSaveNew
    \/ NewStatus
    \/ NewRecursive
    \/ NewRegular
    \/ NewSubInside
    \/ NewSubRef
    \/ NewGitAdd
    \/ NewGitCommit

-----------------------------------------------------------------------------
(* save_all_changes, api_old.py (the predecessor; no blueprint registers it) *)

OldRespNoChanges ==
    [code |-> 200, success |-> TRUE,
     message |-> "No changes to save - dataset is already clean",
     warning |-> FALSE, has_attempts |-> FALSE, attempts |-> <<>>]

OldErrStatusFailed ==
    [code |-> 500, success |-> FALSE, message |-> "Failed to check dataset status",
     warning |-> FALSE, has_attempts |-> FALSE, attempts |-> <<>>]

\* the final return
OldRespAllSaved(attempts) ==
    [code |-> 200, success |-> TRUE, message |-> "All changes have been saved to DataLad",
     warning |-> FALSE, has_attempts |-> TRUE, attempts |-> attempts]

\* Approach 5
OldRespDegraded(attempts) ==
    [code |-> 200, success |-> TRUE,
     message |-> "Changes saved with warnings. Some subdataset changes may persist.",
     warning |-> TRUE, has_attempts |-> TRUE, attempts |-> attempts]

\* the outermost except Exception: no save_attempts key
OldRespUnexpected ==
    [code |-> 500, success |-> FALSE, message |-> "Unexpected error saving changes",
     warning |-> FALSE, has_attempts |-> FALSE, attempts |-> <<>>]

\* subdataset_lines (lines holding 'dataset') filtered by 'modified:'
RECURSIVE OldParseSubdatasets(_)
OldParseSubdatasets(lines) ==
    IF Len(lines) = 0 THEN <<>>
    ELSE LET line == Head(lines)
             rest == OldParseSubdatasets(Tail(lines))
         IN  IF line.type = "dataset" /\ line.state = "modified"
             THEN <<line.path>> \o rest
             ELSE rest

\* the except branch of Approach 4 and the return of Approach 5
OldDegrade(attempts) ==
    LET logged == Append(Append(attempts, Entry("Force save", "", "failed")),
                         Entry("Attempting to proceed despite subdataset changes", "", ""))
    IN  /\ save_attempts' = logged
        /\ Return(OldRespDegraded(logged))

\* `for line in subdataset_lines`: the next unit, or the final regular save
OldLoop(i, subs) ==
    /\ pc' = IF i <= Len(subs) THEN "o_sub_inside" ELSE "o_final_regular"
    /\ response' = response

StartSaveOld ==
    /\ pc \in {"idle", "done"}
    /\ impl' = "old"
    /\ calls' = <<>>
    /\ save_attempts' = <<>>
    /\ result' = "None"
    /\ subdataset_changes' = <<>>
    /\ idx' = 1
    /\ status_out' = <<>>
    /\ UNCHANGED <<restoreVars, graphVars, logVars>>
    /\ \E has_path \in BOOLEAN :
         IF has_path
         THEN pc' = "o_status" /\ response' = NoResponse
         ELSE Return([NoResponse EXCEPT !.code = 404, !.message = "No dataset path found"])

OldStatus ==
    /\ pc = "o_status"
    /\ \E o \in Outcomes, out \in StatusReports :
         /\ calls' = Append(calls, Call("datalad status", Root, "", 0, o))
         /\ status_out' = IF o = "ok" THEN out ELSE <<>>
         /\ CASE Raises(o) -> Return(OldRespUnexpected)
              [] o = "nonzero" -> Return(OldErrStatusFailed)
              [] o = "ok" ->
                   IF Len(out) = 0
                   THEN Return(OldRespNoChanges)
                   ELSE pc' = "o_status_annex" /\ response' = response
    /\ UNCHANGED <<impl, save_attempts, result, subdataset_changes, idx>>
    /\ UNCHANGED <<restoreVars, graphVars, logVars>>

\* status_detailed: datalad status --annex, its exit code not inspected
OldStatusAnnex ==
    /\ pc = "o_status_annex"
    /\ \E o \in Outcomes :
         /\ calls' = Append(calls, Call("datalad status --annex", Root, "", 0, o))
         /\ IF Raises(o)
            THEN Return(OldRespUnexpected)
            ELSE pc' = "o_recursive" /\ response' = response
    /\ UNCHANGED <<impl, status_out, save_attempts, result, subdataset_changes, idx>>
    /\ UNCHANGED <<restoreVars, graphVars, logVars>>

OldRecursive ==
    /\ pc = "o_recursive"
    /\ \E o \in Outcomes :
         /\ calls' = Append(calls, Call("datalad save -r", Root, "", 1, o))
         /\ CASE o = "ok" ->
                   /\ result' = "recursive"
                   /\ save_attempts' = Append(save_attempts, Entry("Recursive save", "", "succeeded"))
                   /\ Return(OldRespAllSaved(save_attempts'))
              [] o = "nonzero" ->
                   /\ result' = result
                   /\ save_attempts' = Append(save_attempts, Entry("Recursive save", "", "failed"))
                   /\ pc' = "o_regular" /\ response' = response
              [] Raises(o) ->
                   /\ UNCHANGED <<result, save_attempts>>
                   /\ Return(OldRespUnexpected)
    /\ UNCHANGED <<impl, status_out, subdataset_changes, idx>>
    /\ UNCHANGED <<restoreVars, graphVars, logVars>>

OldRegular ==
    /\ pc = "o_regular"
    /\ \E o \in Outcomes :
         /\ calls' = Append(calls, Call("datalad save", Root, "", 2, o))
         /\ CASE o = "ok" ->
                   /\ result' = "regular"
                   /\ save_attempts' = Append(save_attempts, Entry("Regular save", "", "succeeded"))
                   /\ UNCHANGED <<subdataset_changes, idx>>
                   /\ Return(OldRespAllSaved(save_attempts'))
              [] o = "nonzero" ->
                   /\ result' = result
                   /\ save_attempts' = Append(save_attempts, Entry("Regular save", "", "failed"))
                   /\ subdataset_changes' = OldParseSubdatasets(status_out)
                   /\ idx' = 1
                   /\ OldLoop(1, subdataset_changes')
              [] Raises(o) ->
                   /\ UNCHANGED <<result, save_attempts, subdataset_changes, idx>>
                   /\ Return(OldRespUnexpected)
    /\ UNCHANGED <<impl, status_out>>
    /\ UNCHANGED <<restoreVars, graphVars, logVars>>

\* Approach 3: the save inside the subdataset (no existence check)
OldSubInside ==
    /\ pc = "o_sub_inside"
    /\ LET subdataset_name == subdataset_changes[idx] IN
       \E o \in Outcomes :
         /\ calls' = Append(calls, Call("datalad save", subdataset_name, "", 3, o))
         /\ CASE o = "ok" ->
                   /\ save_attempts' =
                        Append(save_attempts, Entry("Subdataset internal save", subdataset_name, "succeeded"))
                   /\ pc' = "o_sub_ref" /\ response' = response
              [] o = "nonzero" ->
                   /\ save_attempts' =
                        Append(save_attempts, Entry("Subdataset internal save", subdataset_name, "failed"))
                   /\ pc' = "o_sub_ref" /\ response' = response
              [] Raises(o) ->
                   /\ save_attempts' = save_attempts
                   /\ Return(OldRespUnexpected)
    /\ UNCHANGED <<impl, status_out, result, subdataset_changes, idx>>
    /\ UNCHANGED <<restoreVars, graphVars, logVars>>

\* Approach 3: the save of the subdataset reference from the parent
OldSubRef ==
    /\ pc = "o_sub_ref"
    /\ LET subdataset_name == subdataset_changes[idx] IN
       \E o \in Outcomes :
         /\ calls' = Append(calls, Call("datalad save", Root, subdataset_name, 3, o))
         /\ CASE o = "ok" ->
                   /\ save_attempts' =
                        Append(save_attempts, Entry("Subdataset reference save", subdataset_name, "succeeded"))
                   /\ idx' = idx + 1
                   /\ OldLoop(idx + 1, subdataset_changes)
              [] o = "nonzero" ->
                   /\ save_attempts' =
                        Append(save_attempts, Entry("Subdataset reference save", subdataset_name, "failed"))
                   /\ idx' = idx + 1
                   /\ OldLoop(idx + 1, subdataset_changes)
              [] Raises(o) ->
                   /\ UNCHANGED <<save_attempts, idx>>
                   /\ Return(OldRespUnexpected)
    /\ UNCHANGED <<impl, status_out, result, subdataset_changes>>
    /\ UNCHANGED <<restoreVars, graphVars, logVars>>

\* "Try one more regular save after subdataset saves"
OldFinalRegular ==
    /\ pc = "o_final_regular"
    /\ \E o \in Outcomes :
         /\ calls' = Append(calls, Call("datalad save", Root, "", 3, o))
         /\ CASE o = "ok" ->
                   /\ result' = "regular"
                   /\ save_attempts' = Append(save_attempts, Entry("Final regular save", "", "succeeded"))
                   /\ Return(OldRespAllSaved(save_attempts'))
              [] o = "nonzero" ->
                   /\ result' = result
                   /\ save_attempts' = Append(save_attempts, Entry("Final regular save", "", "failed"))
                   /\ pc' = "o_force_inside" /\ response' = response
              [] Raises(o) ->
                   /\ UNCHANGED <<result, save_attempts>>
                   /\ Return(OldRespUnexpected)
    /\ UNCHANGED <<impl, status_out, subdataset_changes, idx>>
    /\ UNCHANGED <<restoreVars, graphVars, logVars>>

\* Approach 4: the save inside r4, again
OldForceInside ==
    /\ pc = "o_force_inside"
    /\ \E o \in Outcomes :
         /\ calls' = Append(calls, Call("datalad save", "r4", "", 4, o))
         /\ CASE o = "ok" ->
                   /\ save_attempts' =
                        Append(save_attempts, Entry("Subdataset internal save", "r4", "succeeded"))
                   /\ pc' = "o_force_add" /\ response' = response
              [] o = "nonzero" -> OldDegrade(save_attempts)
              [] Raises(o) ->
                   /\ save_attempts' = save_attempts
                   /\ Return(OldRespUnexpected)
    /\ UNCHANGED <<impl, status_out, result, subdataset_changes, idx>>
    /\ UNCHANGED <<restoreVars, graphVars, logVars>>

\* Approach 4: git add r4
OldForceAdd ==
    /\ pc = "o_force_add"
    /\ \E o \in Outcomes :
         /\ calls' = Append(calls, Call("git add", Root, "r4", 4, o))
         /\ CASE o = "ok" ->
                   /\ save_attempts' =
                        Append(save_attempts, Entry("Force add subdataset reference", "", "succeeded"))
                   /\ pc' = "o_force_commit" /\ response' = response
              [] o = "nonzero" -> OldDegrade(save_attempts)
              [] Raises(o) ->
                   /\ save_attempts' = save_attempts
                   /\ Return(OldRespUnexpected)
    /\ UNCHANGED <<impl, status_out, result, subdataset_changes, idx>>
    /\ UNCHANGED <<restoreVars, graphVars, logVars>>

\* Approach 4: git commit
OldForceCommit ==
    /\ pc = "o_force_commit"
    /\ \E o \in Outcomes :
         /\ calls' = Append(calls, Call("git commit", Root, "", 4, o))
         /\ CASE o = "ok" ->
                   /\ result' = "force_commit"
                   /\ save_attempts' =
                        Append(save_attempts, Entry("Force commit subdataset reference", "", "succeeded"))
                   /\ Return(OldRespAllSaved(save_attempts'))
              [] o = "nonzero" ->
                   /\ result' = result
                   /\ OldDegrade(save_attempts)
              [] Raises(o) ->
                   /\ UNCHANGED <<result, save_attempts>>
                   /\ Return(OldRespUnexpected)
    /\ UNCHANGED <<impl, status_out, subdataset_changes, idx>>
    /\ UNCHANGED <<restoreVars, graphVars, logVars>>

SaveAllChangesOld ==
    \/ StartSaveOld
    \/ OldStatus
    \/ OldStatusAnnex
    \/ OldRecursive
    \/ OldRegular
    \/ OldSubInside
    \/ OldSubRef
    \/ OldFinalRegular
    \/ OldForceInside
    \/ OldForceAdd
    \/ OldForceCommit

-----------------------------------------------------------------------------
(* restore_file_to_commit, services/git_operations.py *)

Paths == {"a.txt", "b.txt"}

Absent == "absent"

\* the contents a path takes in the model: a.txt has two versions, b.txt
\* (the rest of the dataset) one
ContentsOf(p) == IF p = "a.txt" THEN {"v1", "v2"} ELSE {"v1"}

\* a tree: the content of each path, or Absent
Trees == {t \in [Paths -> {"v1", "v2", Absent}] : \A p \in Paths : t[p] \in ContentsOf(p) \cup {Absent}}

\* restore_file_to_commit's commands: a FileNotFoundError is handled the
\* same whatever raised it
RestoreOutcomes == {"ok", "nonzero", "notfound"}

MaxCommits == 2

Histories == UNION {[1..n -> Trees] : n \in 1..MaxCommits}

HeadTree(cs) == cs[Len(cs)]

\* `git show <commit_hash>:<file_path>` can exit 0
FileInRev(cs, rev, path) == rev \in 1..Len(cs) /\ cs[rev][path] # Absent

\* the outcomes a command can have, given whether it can succeed here
OutcomesIf(possible) == IF possible THEN RestoreOutcomes ELSE RestoreOutcomes \ {"ok"}

NoSnapshot == [commits |-> <<>>, index |-> <<>>, worktree |-> <<>>]

RestoreResponse(kind, reason) ==
    [kind |-> kind, reason |-> reason, file_path |-> file_path, commit_hash |-> commit_hash]

\* the exceptions restore_file_to_commit lets escape
RestoreRaise(kind, reason) == pc' = "done" /\ response' = RestoreResponse(kind, reason)

\* check_file_exists_in_commit: `result.returncode == 0`, False on any exception
CheckFileExistsMut(o) == TRUE
CheckFileExists(o) == o = "ok"

\* the tree `git checkout <commit_hash> -- <file_path>` reads from
CheckoutSourceMut(cs, rev) == cs[Len(cs)]
CheckoutSource(cs, rev) == cs[rev]

\* `git status --porcelain` prints a line for every staged, unstaged or
\* untracked difference
PorcelainOutput(head, idxt, wt) == head # idxt \/ idxt # wt

\* entering restore_file_to_commit: `if not os.path.exists(dataset_path)`
StartRestore ==
    /\ pc = "idle"
    /\ calls' = <<>>
    /\ porcelain' = FALSE
    /\ snapshot' = [commits |-> commits, index |-> index, worktree |-> worktree]
    /\ \E path \in Paths, rev \in 1..(MaxCommits + 1), dataset_exists \in BOOLEAN :
         /\ file_path' = path
         /\ commit_hash' = rev
         /\ IF dataset_exists
            THEN pc' = "r_show" /\ response' = NoResponse
            ELSE /\ pc' = "done"
                 /\ response' = [kind |-> "DatasetError", reason |-> "path_missing",
                                 file_path |-> path, commit_hash |-> rev]
    /\ UNCHANGED <<commits, index, worktree>>
    /\ UNCHANGED <<saveVars, graphVars, logVars>>

\* check_file_exists_in_commit and the raise that follows a False
RestoreShow ==
    /\ pc = "r_show"
    /\ \E o \in OutcomesIf(FileInRev(commits, commit_hash, file_path)) :
         /\ calls' = Append(calls, Call("git show", Root, file_path, 0, o))
         /\ IF CheckFileExists(o)
            THEN pc' = "r_checkout" /\ response' = response
            ELSE RestoreRaise("GitOperationError", "not_in_commit")
    /\ UNCHANGED <<commits, index, worktree, file_path, commit_hash, porcelain, snapshot>>
    /\ UNCHANGED <<saveVars, graphVars, logVars>>

\* git checkout <commit_hash> -- <file_path> (check=False), the returncode
\* test and the os.path.exists verification
RestoreCheckout ==
    /\ pc = "r_checkout"
    /\ \E o \in OutcomesIf(FileInRev(commits, commit_hash, file_path)) :
         /\ calls' = Append(calls, Call("git checkout", Root, file_path, 0, o))
         /\ CASE o = "ok" ->
                   LET content == CheckoutSource(commits, commit_hash)[file_path] IN
                   /\ worktree' = [worktree EXCEPT ![file_path] = content]
                   /\ index' = [index EXCEPT ![file_path] = content]
                   /\ IF worktree'[file_path] = Absent
                      THEN RestoreRaise("GitOperationError", "not_restored")
                      ELSE pc' = "r_add" /\ response' = response
              [] o = "nonzero" ->
                   /\ UNCHANGED <<worktree, index>>
                   /\ RestoreRaise("GitOperationError", "checkout_failed")
              [] Raises(o) ->
                   /\ UNCHANGED <<worktree, index>>
                   /\ RestoreRaise("FileNotFoundError", o)
    /\ UNCHANGED <<commits, file_path, commit_hash, porcelain, snapshot>>
    /\ UNCHANGED <<saveVars, graphVars, logVars>>

\* git add <file_path> (check=False); a non-zero exit is only printed
RestoreAdd ==
    /\ pc = "r_add"
    /\ \E o \in RestoreOutcomes :
         /\ calls' = Append(calls, Call("git add", Root, file_path, 0, o))
         /\ CASE o = "ok" ->
                   /\ index' = [index EXCEPT ![file_path] = worktree[file_path]]
                   /\ pc' = "r_status" /\ response' = response
              [] o = "nonzero" ->
                   /\ index' = index
                   /\ pc' = "r_status" /\ response' = response
              [] Raises(o) ->
                   /\ index' = index
                   /\ RestoreRaise("FileNotFoundError", o)
    /\ UNCHANGED <<commits, worktree, file_path, commit_hash, porcelain, snapshot>>
    /\ UNCHANGED <<saveVars, graphVars, logVars>>

\* git status --porcelain (check=False); its stdout decides the commit
RestoreStatus ==
    /\ pc = "r_status"
    /\ \E o \in RestoreOutcomes :
         /\ calls' = Append(calls, Call("git status --porcelain", Root, "", 0, o))
         /\ CASE o = "ok" ->
                   /\ porcelain' = PorcelainOutput(HeadTree(commits), index, worktree)
                   /\ pc' = IF porcelain' THEN "r_commit" ELSE "r_datalad"
                   /\ response' = response
              [] o = "nonzero" ->
                   /\ porcelain' = FALSE
                   /\ pc' = "r_datalad" /\ response' = response
              [] Raises(o) ->
                   /\ porcelain' = FALSE
                   /\ RestoreRaise("FileNotFoundError", o)
    /\ UNCHANGED <<commits, index, worktree, file_path, commit_hash, snapshot>>
    /\ UNCHANGED <<saveVars, graphVars, logVars>>

\* git commit -m <commit_msg> (check=False); a non-zero exit is only
\* printed.  The commit records the index; with nothing staged git exits 1.
RestoreCommit ==
    /\ pc = "r_commit"
    /\ \E o \in OutcomesIf(index # HeadTree(commits)) :
         /\ calls' = Append(calls, Call("git commit", Root, "", 0, o))
         /\ CASE o = "ok" ->
                   /\ commits' = Append(commits, index)
                   /\ pc' = "r_datalad" /\ response' = response
              [] o = "nonzero" ->
                   /\ commits' = commits
                   /\ pc' = "r_datalad" /\ response' = response
              [] Raises(o) ->
                   /\ commits' = commits
                   /\ RestoreRaise("FileNotFoundError", o)
    /\ UNCHANGED <<index, worktree, file_path, commit_hash, porcelain, snapshot>>
    /\ UNCHANGED <<saveVars, graphVars, logVars>>

\* the try/except Exception around the datalad save: with check=False a
\* non-zero exit is only printed, and an exception of subprocess.run is
\* caught and printed as a warning; in every case control reaches the return
DataladSaveToleratedMut(o) == o = "ok"

DataladSaveTolerated(o) == o \in {"ok", "nonzero"} \/ Raises(o)

\* `if os.path.exists(.datalad)`: datalad save -m <commit_msg> (check=False)
\* inside try/except Exception, then the return.  datalad save records every
\* pending change of the dataset.
RestoreDataladSave ==
    /\ pc = "r_datalad"
    /\ \E datalad_dir \in BOOLEAN, o \in RestoreOutcomes :
         IF ~datalad_dir
         THEN /\ o = "ok"
              /\ UNCHANGED <<calls, commits, index>>
              /\ RestoreRaise("success", "restored")
         ELSE /\ calls' = Append(calls, Call("datalad save", Root, "", 0, o))
              /\ IF o = "ok" /\ worktree # HeadTree(commits)
                 THEN commits' = Append(commits, worktree) /\ index' = worktree
                 ELSE IF o = "ok"
                      THEN commits' = commits /\ index' = worktree
                      ELSE UNCHANGED <<commits, index>>
              /\ IF DataladSaveTolerated(o)
                 THEN RestoreRaise("success", "restored")
                 ELSE RestoreRaise("GitOperationError", "datalad_save_failed")
    /\ UNCHANGED <<worktree, file_path, commit_hash, porcelain, snapshot>>
    /\ UNCHANGED <<saveVars, graphVars, logVars>>

RestoreFileToCommit ==
    \/ StartRestore
    \/ RestoreShow
    \/ RestoreCheckout
    \/ RestoreAdd
    \/ RestoreStatus
    \/ RestoreCommit
    \/ RestoreDataladSave

-----------------------------------------------------------------------------
(* create_dataflow_from_dataset (synthesize), get_file_tree,               *)
(* get_stage_files (the status classifier) and validate_dataset            *)

\* the largest number of directories and files (present or deleted) of a dataset
MaxEntries == 3

\* the keys of directory_types
StageNames == {"raw_data", "preprocessed", "scripts", "results", "plots"}

\* directory_types[name]['color']
BaseColor(name) ==
    CASE name = "raw_data" -> "#87CEEB"
      [] name = "preprocessed" -> "#90EE90"
      [] name = "scripts" -> "#4CAF50"
      [] name = "results" -> "#FFA07A"
      [] name = "plots" -> "#DDA0DD"

\* the keys of missing_stages, in dict order
MissingStagesMut == <<"results", "plots">>

MissingStages == <<"scripts", "results", "plots">>

\* basic_dirs
BasicDirs == <<"raw_data", "preprocessed", "scripts", "results", "plots">>

\* top-level names a dataset may hold next to the stage directories: a
\* directory that is no stage and a regular file
OtherDirs == {"docs"}

TopFiles == {"README.md"}

TopNames == StageNames \cup OtherDirs \cup TopFiles

\* how an executable behaves for every command of one call: git is present
\* or absent; datalad status exits 0, exits non-zero or is absent
GitOutcomes == {"ok", "notfound"}

DataladOutcomes == {"ok", "nonzero", "notfound"}

\* The files below one top-level directory: regular files directly in it,
\* tracked (in the git index) or untracked; tracked files in a
\* subdirectory; files deleted from the working tree that HEAD still holds;
\* files in a subdirectory without search permission, which os.listdir and
\* os.walk list and os.stat refuses.
NoFiles == [tracked |-> 0, untracked |-> 0, nested |-> 0, deleted |-> 0, locked |-> 0]

Size(c) == c.tracked + c.untracked + c.nested + c.deleted + c.locked

Counts(n) ==
    {c \in [tracked : 0..n, untracked : 0..n, nested : 0..n, deleted : 0..n, locked : 0..n] :
        Size(c) <= n}

ContentsFor(name, n) == IF name \in StageNames THEN Counts(n) ELSE {NoFiles}

DirEntry(name, c) ==
    [name |-> name, type |-> IF name \in TopFiles THEN "file" ELSE "directory", files |-> c]

\* every dataset directory of at most `budget` entries over `names`, as the
\* sequence os.listdir returns (names are unique, the order is arbitrary)
RECURSIVE DatasetsOf(_, _)
DatasetsOf(budget, names) ==
    {<<>>} \cup
    IF budget = 0
    THEN {}
    ELSE UNION {UNION {{<<DirEntry(name, c)>> \o rest :
                           rest \in DatasetsOf(budget - 1 - Size(c), names \ {name})} :
                       c \in ContentsFor(name, budget - 1)} :
                name \in names}

\* build_tree of one directory: a 'file' child per regular file directly in
\* it and a 'directory' child per subdirectory; the PermissionError of
\* os.path.getsize inside the locked subdirectory is swallowed
Children(c) ==
    [i \in 1..(c.tracked + c.untracked) |-> "file"]
        \o (IF c.nested > 0 THEN <<"directory">> ELSE <<>>)
        \o (IF c.locked > 0 THEN <<"directory">> ELSE <<>>)

\* get_file_tree: name, path, type and children of every top-level entry
GetFileTree(ds) ==
    [i \in 1..Len(ds) |->
        [name |-> ds[i].name, path |-> ds[i].name, type |-> ds[i].type,
         children |-> IF ds[i].type = "directory" THEN Children(ds[i].files) ELSE <<>>]]

\* the files os.walk(stage_path) yields, top directory first: whether the
\* file is in the index and whether os.stat succeeds on it
WalkFiles(c) ==
    [i \in 1..c.tracked |-> [tracked |-> TRUE, stat |-> TRUE]]
        \o [i \in 1..c.untracked |-> [tracked |-> FALSE, stat |-> TRUE]]
        \o [i \in 1..c.nested |-> [tracked |-> TRUE, stat |-> TRUE]]
        \o [i \in 1..c.locked |-> [tracked |-> FALSE, stat |-> FALSE]]

\* the outcome of `git ls-files --error-unmatch <path>`: exit 0 for a path
\* in the index of the repository, exit 1 otherwise
LsFilesOutcome(f, git, repo) ==
    IF git = "notfound" THEN "notfound"
    ELSE IF repo /\ f.tracked THEN "ok" ELSE "nonzero"

\* _check_file_in_git: returncode == 0; an exception gives False
CheckFileInGit(f, git, repo) == LsFilesOutcome(f, git, repo) = "ok"

\* the lines `datalad status <stage>` prints for the directory
StageStatusOutput(c) ==
    [i \in 1..c.deleted |-> "deleted"]
        \o [i \in 1..(c.untracked + c.locked) |-> "untracked"]

\* _get_deleted_files: the 'deleted:' lines of a status that exited 0; a
\* non-zero exit gives the empty list and an exception is caught
GetDeletedFiles(c, dl) ==
    IF dl = "ok"
    THEN SelectSeq(StageStatusOutput(c), LAMBDA line : line = "deleted")
    ELSE <<>>

\* the number of files walked before os.stat raises (all when it never does)
RECURSIVE StatPrefix(_)
StatPrefix(fs) ==
    IF fs = <<>> \/ ~Head(fs).stat THEN 0 ELSE 1 + StatPrefix(Tail(fs))

\* metadata {} of the `except Exception` return of get_stage_files
EmptyMetadata == [k \in {} |-> 0]

\* get_stage_files for an existing stage directory: the counts of the walk,
\* or the error result as soon as os.stat raises inside _get_file_info
GetStageFiles(c, git, dl, repo) ==
    LET fs == WalkFiles(c)
        tracked_files == Len(SelectSeq(fs, LAMBDA f : CheckFileInGit(f, git, repo)))
        untracked_files == Len(SelectSeq(fs, LAMBDA f : ~CheckFileInGit(f, git, repo)))
    IN  IF StatPrefix(fs) < Len(fs)
        THEN [error |-> TRUE, files |-> <<>>, metadata |-> EmptyMetadata]
        ELSE [error |-> FALSE, files |-> fs,
              metadata |-> [file_count |-> Len(fs),
                            tracked_files |-> tracked_files,
                            untracked_files |-> untracked_files,
                            deleted_files |-> Len(GetDeletedFiles(c, dl))]]

\* the commands get_stage_files runs for stage `name`: `datalad status` of
\* get_status, `datalad status <stage>` of _get_deleted_files, then one
\* `git ls-files` per file whose os.stat succeeded
StageCallsMut(name, c, git, dl, repo) ==
    <<Call("datalad status", Root, "", 0, dl), Call("datalad save", Root, name, 0, dl)>>

StageCalls(name, c, git, dl, repo) ==
    <<Call("datalad status", Root, "", 0, dl), Call("datalad status", Root, name, 0, dl)>>
        \o [i \in 1..StatPrefix(WalkFiles(c)) |->
               Call("git ls-files", Root, name, 0, LsFilesOutcome(WalkFiles(c)[i], git, repo))]

\* the central "Dataset Root" node
CentralNodeMut(id) ==
    [id |-> id + 1, label |-> <<"Dataset Root">>, type |-> "dataset_root", path |-> Root,
     color |-> "#4CAF50", file_count |-> 0, is_central |-> TRUE]

CentralNode(id) ==
    [id |-> id, label |-> <<"Dataset Root">>, type |-> "dataset_root", path |-> Root,
     color |-> "#4CAF50", file_count |-> 0, is_central |-> TRUE]

\* the node color from the status counts
NodeColorMut(base_color, deleted_count, untracked_count) ==
    IF untracked_count > 0 THEN "#FFA500"
    ELSE IF deleted_count > 0 THEN "#FF6B6B"
    ELSE base_color

NodeColor(base_color, deleted_count, untracked_count) ==
    IF deleted_count > 0 THEN "#FF6B6B"
    ELSE IF untracked_count > 0 THEN "#FFA500"
    ELSE base_color

\* status_parts and the label built from them
NodeLabel(name, file_count, untracked_count, deleted_count) ==
    LET status_parts ==
            (IF file_count > 0 THEN <<<<file_count, "files">>>> ELSE <<>>)
                \o (IF untracked_count > 0 THEN <<<<untracked_count, "untracked">>>> ELSE <<>>)
                \o (IF deleted_count > 0 THEN <<<<deleted_count, "deleted">>>> ELSE <<>>)
    IN  IF status_parts # <<>> THEN <<name, status_parts>> ELSE <<name, <<<<0, "files">>>> >>

\* stage_data['metadata'][key] raises KeyError on the error result
HasCounts(stage_data) == "tracked_files" \in DOMAIN stage_data.metadata

\* the node of an existing stage directory
StageNode(id, item, stage_data) ==
    LET file_count == Len(SelectSeq(item.children, LAMBDA f : f = "file"))
        tracked_count == stage_data.metadata.tracked_files
        untracked_count == stage_data.metadata.untracked_files
        deleted_count == stage_data.metadata.deleted_files
    IN  [id |-> id,
         label |-> NodeLabel(item.name, file_count, untracked_count, deleted_count),
         type |-> item.name,
         path |-> item.path,
         color |-> NodeColor(BaseColor(item.name), deleted_count, untracked_count),
         file_count |-> file_count,
         tracked_files |-> tracked_count,
         untracked_files |-> untracked_count,
         deleted_files |-> deleted_count,
         has_untracked |-> untracked_count > 0,
         has_deleted |-> deleted_count > 0,
         is_central |-> FALSE]

\* the node of a missing stage
PlaceholderNodeMut(id, stage_name) ==
    [id |-> id, label |-> <<stage_name, <<<<0, "files">>>> >>, type |-> stage_name,
     path |-> stage_name, color |-> BaseColor(stage_name), file_count |-> 0,
     is_central |-> TRUE]

PlaceholderNode(id, stage_name) ==
    [id |-> id, label |-> <<stage_name, <<<<0, "files">>>> >>, type |-> stage_name,
     path |-> stage_name, color |-> BaseColor(stage_name), file_count |-> 0,
     is_central |-> FALSE]

InDict(dn, name) == \E i \in 1..Len(dn) : dn[i][1] = name

\* `for stage_name, stage_info in missing_stages.items()` from position i on
RECURSIVE AddMissingStages(_, _)
AddMissingStages(i, st) ==
    IF i > Len(MissingStages)
    THEN st
    ELSE IF InDict(st.directory_nodes, MissingStages[i])
         THEN AddMissingStages(i + 1, st)
         ELSE AddMissingStages(i + 1,
                  [nodes |-> Append(st.nodes, PlaceholderNode(st.node_id, MissingStages[i])),
                   directory_nodes |-> Append(st.directory_nodes, <<MissingStages[i], st.node_id>>),
                   node_id |-> st.node_id + 1])

Edge(from, to) ==
    [from |-> from, to |-> to, arrows |-> "to", label |-> "contains", color |-> "#666"]

\* `for dir_name, dir_node_id in directory_nodes.items()`
SpiderEdgesMut(central_node_id, dn) == [i \in 1..Len(dn) |-> Edge(dn[i][2], central_node_id)]

SpiderEdges(central_node_id, dn) == [i \in 1..Len(dn) |-> Edge(central_node_id, dn[i][2])]

\* `if len(nodes) == 1`: the basic spider web of the five stages
BasicSpiderWeb(central_node_id, st, edges) ==
    IF Len(st.nodes) = 1
    THEN [nodes |-> st.nodes \o [i \in 1..Len(BasicDirs) |->
                                    PlaceholderNode(st.node_id + i - 1, BasicDirs[i])],
          edges |-> edges \o [i \in 1..Len(BasicDirs) |->
                                 Edge(central_node_id, st.node_id + i - 1)]]
    ELSE [nodes |-> st.nodes, edges |-> edges]

\* the returned dict; metadata carries the two totals
GraphResponse(g) ==
    [kind |-> "graph", nodes |-> g.nodes, edges |-> g.edges,
     total_stages |-> Len(g.nodes), total_connections |-> Len(g.edges)]

DatasetError(reason) == [kind |-> "DatasetError", reason |-> reason]

\* `nodes = []` and the append of the central node: every call starts its
\* own list, whatever an earlier call returned
InitialNodesMut(earlier) == IF earlier = <<>> THEN <<CentralNode(1)>> ELSE earlier

InitialNodes(earlier) == <<CentralNode(1)>>

\* the os.path.exists check and get_file_tree, then the central node
StartSynthesize ==
    /\ pc = "idle"
    /\ calls' = <<>>
    /\ \E dataset_exists \in BOOLEAN :
         IF dataset_exists
         THEN /\ file_tree' = GetFileTree(dataset)
              /\ item_idx' = 1
              /\ nodes' = InitialNodes(prev_nodes)
              /\ directory_nodes' = <<>>
              /\ node_id' = 2
              /\ pc' = "s_items"
              /\ response' = response
         ELSE /\ pc' = "done"
              /\ response' = DatasetError("path_missing")
              /\ UNCHANGED <<file_tree, item_idx, nodes, directory_nodes, node_id>>
    /\ UNCHANGED <<dataset, has_git, has_datalad, git_out, datalad_out, prev_nodes>>
    /\ UNCHANGED <<saveVars, restoreVars, logVars>>

\* one round of `for item in file_tree`: for a stage directory
\* get_stage_files and the node; the KeyError on the error result leaves
\* through `except Exception` as DatasetError
SynthItem ==
    /\ pc = "s_items"
    /\ item_idx <= Len(file_tree)
    /\ LET item == file_tree[item_idx]
           c == dataset[item_idx].files
           stage_data == GetStageFiles(c, git_out, datalad_out, has_git)
       IN  IF item.type = "directory" /\ item.name \in StageNames
           THEN /\ calls' = calls \o StageCalls(item.name, c, git_out, datalad_out, has_git)
                /\ IF HasCounts(stage_data)
                   THEN /\ nodes' = Append(nodes, StageNode(node_id, item, stage_data))
                        /\ directory_nodes' = Append(directory_nodes, <<item.name, node_id>>)
                        /\ node_id' = node_id + 1
                        /\ item_idx' = item_idx + 1
                        /\ pc' = pc /\ response' = response
                   ELSE /\ pc' = "done"
                        /\ response' = DatasetError("create_failed")
                        /\ UNCHANGED <<nodes, directory_nodes, node_id, item_idx>>
           ELSE /\ item_idx' = item_idx + 1
                /\ UNCHANGED <<calls, nodes, directory_nodes, node_id, pc, response>>
    /\ UNCHANGED <<dataset, has_git, has_datalad, git_out, datalad_out, file_tree, prev_nodes>>
    /\ UNCHANGED <<saveVars, restoreVars, logVars>>

\* after the loop: missing stages, edges, the basic web, the return
SynthFinish ==
    /\ pc = "s_items"
    /\ item_idx > Len(file_tree)
    /\ LET st == AddMissingStages(1, [nodes |-> nodes, directory_nodes |-> directory_nodes,
                                      node_id |-> node_id])
           g == BasicSpiderWeb(1, st, SpiderEdges(1, st.directory_nodes))
       IN  /\ nodes' = g.nodes
           /\ directory_nodes' = st.directory_nodes
           /\ node_id' = st.node_id + (Len(g.nodes) - Len(st.nodes))
           /\ response' = GraphResponse(g)
    /\ pc' = "done"
    /\ UNCHANGED <<calls, dataset, has_git, has_datalad, git_out, datalad_out, file_tree, item_idx,
                   prev_nodes>>
    /\ UNCHANGED <<saveVars, restoreVars, logVars>>

CreateDataflowFromDataset ==
    \/ StartSynthesize
    \/ SynthItem
    \/ SynthFinish

\* the caller keeps the returned nodes and calls create_dataflow_from_dataset
\* once more on the same dataset directory: nothing on disk and no tool
\* answer has changed in between
SynthAgain ==
    /\ pc = "done"
    /\ response.kind = "graph"
    /\ prev_nodes = <<>>
    /\ prev_nodes' = response.nodes
    /\ pc' = "idle"
    /\ UNCHANGED <<calls, response>>
    /\ UNCHANGED <<dataset, has_git, has_datalad, git_out, datalad_out,
                   file_tree, item_idx, nodes, directory_nodes, node_id>>
    /\ UNCHANGED <<saveVars, restoreVars, logVars>>

\* get_status inside validate_dataset: _run_command with check=True turns a
\* non-zero exit, and its except clause an absent executable, into
\* DataLadCommandError
GetStatusRaises(dl) == dl # "ok"

\* DataLadUtils.validate_dataset
ValidateDataset ==
    /\ pc = "idle"
    /\ \E dataset_exists \in BOOLEAN :
         IF ~dataset_exists
         THEN /\ calls' = <<>>
              /\ response' = [kind |-> "validation", valid |-> FALSE,
                              errors |-> <<"path_missing">>, warnings |-> <<>>]
         ELSE LET errors == (IF ~has_git THEN <<"missing_git">> ELSE <<>>)
                                \o (IF GetStatusRaises(datalad_out)
                                    THEN <<"status_failed">> ELSE <<>>)
                  warnings == IF ~has_datalad THEN <<"missing_datalad">> ELSE <<>>
              IN  /\ calls' = <<Call("datalad status", Root, "", 0, datalad_out)>>
                  /\ response' = [kind |-> "validation", valid |-> Len(errors) = 0,
                                  errors |-> errors, warnings |-> warnings]
    /\ pc' = "done"
    /\ UNCHANGED graphVars
    /\ UNCHANGED <<saveVars, restoreVars, logVars>>

NoGraphState ==
    /\ dataset = <<>>
    /\ has_git = TRUE
    /\ has_datalad = TRUE
    /\ git_out = "ok"
    /\ datalad_out = "ok"
    /\ file_tree = <<>>
    /\ item_idx = 1
    /\ nodes = <<>>
    /\ directory_nodes = <<>>
    /\ node_id = 1
    /\ prev_nodes = <<>>

-----------------------------------------------------------------------------
(* Specifications *)

SpecSaveInit ==
    /\ impl = "new"
    /\ pc = "idle"
    /\ calls = <<>>
    /\ response = NoResponse
    /\ status_out = <<>>
    /\ save_attempts = <<>>
    /\ result = "None"
    /\ subdataset_changes = <<>>
    /\ idx = 1
    /\ commits = <<[p \in Paths |-> Absent]>>
    /\ index = [p \in Paths |-> Absent]
    /\ worktree = [p \in Paths |-> Absent]
    /\ file_path = "a.txt"
    /\ commit_hash = 1
    /\ porcelain = FALSE
    /\ snapshot = NoSnapshot
    /\ NoGraphState
    /\ history = <<>>

\* a dataset with any history, index and working tree
SpecRestoreInit ==
    /\ impl = "new"
    /\ pc = "idle"
    /\ calls = <<>>
    /\ response = NoResponse
    /\ status_out = <<>>
    /\ save_attempts = <<>>
    /\ result = "None"
    /\ subdataset_changes = <<>>
    /\ idx = 1
    /\ commits \in Histories
    /\ index \in Trees
    /\ worktree \in Trees
    /\ file_path = "a.txt"
    /\ commit_hash = 1
    /\ porcelain = FALSE
    /\ snapshot = NoSnapshot
    /\ NoGraphState
    /\ history = <<>>

RestoreNext == RestoreFileToCommit

SpecRestore == SpecRestoreInit /\ [][RestoreNext]_vars

SaveNext == SaveAllChangesNew \/ SaveAllChangesOld

SpecSave == SpecSaveInit /\ [][SaveNext]_vars

\* any dataset directory, with or without its control directories, and any
\* behaviour of the two executables
SpecGraphInit ==
    /\ impl = "new"
    /\ pc = "idle"
    /\ calls = <<>>
    /\ response = NoResponse
    /\ status_out = <<>>
    /\ save_attempts = <<>>
    /\ result = "None"
    /\ subdataset_changes = <<>>
    /\ idx = 1
    /\ commits = <<[p \in Paths |-> Absent]>>
    /\ index = [p \in Paths |-> Absent]
    /\ worktree = [p \in Paths |-> Absent]
    /\ file_path = "a.txt"
    /\ commit_hash = 1
    /\ porcelain = FALSE
    /\ snapshot = NoSnapshot
    /\ dataset \in DatasetsOf(MaxEntries, TopNames)
    /\ has_git \in BOOLEAN
    /\ has_datalad \in BOOLEAN
    /\ git_out \in GitOutcomes
    /\ datalad_out \in DataladOutcomes
    /\ file_tree = <<>>
    /\ item_idx = 1
    /\ nodes = <<>>
    /\ directory_nodes = <<>>
    /\ node_id = 1
    /\ prev_nodes = <<>>
    /\ history = <<>>

GraphNext == CreateDataflowFromDataset \/ ValidateDataset

SpecGraph == SpecGraphInit /\ [][GraphNext]_vars

\* two consecutive create_dataflow_from_dataset calls on one dataset
GraphTwiceNext == CreateDataflowFromDataset \/ SynthAgain

SpecGraphTwice == SpecGraphInit /\ [][GraphTwiceNext]_vars

-----------------------------------------------------------------------------
(* DataLadUtils._run_command (the command gateway) and the subprocess.run  *)
(* calls that save_all_changes, restore_file_to_commit and the status      *)
(* classifier make themselves                                              *)

\* DataLadUtils.__init__'s default timeout, in seconds
DefaultTimeout == 300

\* the timeout _check_datalad_availability passes
ShortTimeout == 10

\* the Python value None
None == "None"

\* a timeout= argument: None, or a number of seconds
NoTimeout == [finite |-> FALSE, seconds |-> 0]

Seconds(n) == [finite |-> TRUE, seconds |-> n]

\* what a spawned process prints before it exits or is killed
Outputs == {"", "text"}

\* The process behind one invocation: it exits with a return code after
\* printing `out`, or the executable is absent, or it never exits, having
\* printed `out` so far.
Processes ==
    [kind : {"exits"}, returncode : {0, 1, 128}, out : Outputs]
        \cup [kind : {"absent"}, returncode : {0}, out : {""}]
        \cup [kind : {"never_exits"}, returncode : {0}, out : Outputs]

\* `if timeout is None: timeout = self.timeout`
EffectiveTimeout(timeout) == IF timeout = NoTimeout THEN Seconds(DefaultTimeout) ELSE timeout

\* one subprocess.run call: who issues it, through the gateway or not, the
\* check and capture_output flags, the timeout= it passes, and its process
Invocation(caller, via, check, capture_output, timeout, proc) ==
    [caller |-> caller, via |-> via, check |-> check, capture_output |-> capture_output,
     timeout |-> timeout, proc |-> proc]

\* `if check and result.returncode != 0`
StrictFailureMut(check, returncode) == returncode # 0

StrictFailure(check, returncode) == check /\ returncode # 0

\* result.stdout of the CompletedProcess: None without capture_output
CompletedStdout(inv) == IF inv.capture_output THEN inv.proc.out ELSE None

\* the stdout attribute of TimeoutExpired: what was read so far, None when
\* nothing was
TimeoutStdout(inv) == IF inv.capture_output /\ inv.proc.out # "" THEN inv.proc.out ELSE None

\* the response dict of _run_command
GatewayResponse(inv) ==
    [raised |-> FALSE, error |-> None, returncode |-> inv.proc.returncode,
     stdout |-> IF inv.capture_output THEN CompletedStdout(inv) ELSE "",
     timeout |-> inv.timeout]

\* raise DataLadCommandError(message, command, returncode, stdout, stderr)
DataLadCommandError(message, returncode, stdout) ==
    [raised |-> TRUE, error |-> message, returncode |-> returncode, stdout |-> stdout,
     timeout |-> NoTimeout]

\* `e.stdout or ''`
OrEmpty(v) == IF v = None \/ v = "" THEN "" ELSE v

\* _run_command is called from get_status (check defaulted to True),
\* get_metadata (check=False) or _check_datalad_availability (timeout=10)
GatewayRun ==
    /\ pc = "idle"
    /\ \E caller \in {"get_status", "get_metadata", "check_availability"},
          check \in BOOLEAN, capture_output \in BOOLEAN,
          timeout \in {NoTimeout, Seconds(ShortTimeout)}, proc \in Processes :
         calls' = <<Invocation(caller, "gateway", check, capture_output,
                               EffectiveTimeout(timeout), proc)>>
    /\ pc' = "running"
    /\ response' = NoResponse
    /\ UNCHANGED <<saveVars, restoreVars, graphVars, logVars>>

\* subprocess.run as save_all_changes (check=True), restore_file_to_commit
\* (check=False) and _check_file_in_git / _get_deleted_files (check=False)
\* call it: capture_output=True, text=True and no timeout=
DirectRun ==
    /\ pc = "idle"
    /\ \E caller \in {"commitAll", "restore", "classifier"}, proc \in Processes :
         calls' = <<Invocation(caller, "subprocess", caller = "commitAll", TRUE, NoTimeout, proc)>>
    /\ pc' = "running"
    /\ response' = NoResponse
    /\ UNCHANGED <<saveVars, restoreVars, graphVars, logVars>>

\* the process exits and subprocess.run returns; the gateway and check=True
\* turn a non-zero return code into an exception
ProcessExits ==
    /\ pc = "running"
    /\ calls[1].proc.kind = "exits"
    /\ LET inv == calls[1] IN
       response' =
           IF inv.via = "gateway"
           THEN IF StrictFailure(inv.check, inv.proc.returncode)
                THEN DataLadCommandError("Command failed", inv.proc.returncode,
                                         CompletedStdout(inv))
                ELSE GatewayResponse(inv)
           ELSE IF inv.check /\ inv.proc.returncode # 0
                THEN [raised |-> TRUE, error |-> "CalledProcessError",
                      returncode |-> inv.proc.returncode, stdout |-> CompletedStdout(inv),
                      timeout |-> NoTimeout]
                ELSE [raised |-> FALSE, error |-> None,
                      returncode |-> inv.proc.returncode, stdout |-> CompletedStdout(inv),
                      timeout |-> NoTimeout]
    /\ pc' = "returned"
    /\ UNCHANGED calls
    /\ UNCHANGED <<saveVars, restoreVars, graphVars, logVars>>

\* the executable is absent: subprocess.run raises FileNotFoundError, which
\* the gateway wraps
ExecutableAbsent ==
    /\ pc = "running"
    /\ calls[1].proc.kind = "absent"
    /\ response' =
           IF calls[1].via = "gateway"
           THEN DataLadCommandError("Command not found", -1, "")
           ELSE [raised |-> TRUE, error |-> "FileNotFoundError", returncode |-> -1,
                 stdout |-> "", timeout |-> NoTimeout]
    /\ pc' = "returned"
    /\ UNCHANGED calls
    /\ UNCHANGED <<saveVars, restoreVars, graphVars, logVars>>

\* the timeout elapses on a process that has not exited: subprocess.run
\* kills it and raises TimeoutExpired, which the gateway wraps.  Without a
\* timeout nothing ends the wait.
TimeoutElapses ==
    /\ pc = "running"
    /\ calls[1].proc.kind = "never_exits"
    /\ calls[1].timeout.finite
    /\ response' = DataLadCommandError("Command timed out", -1, OrEmpty(TimeoutStdout(calls[1])))
    /\ pc' = "returned"
    /\ UNCHANGED calls
    /\ UNCHANGED <<saveVars, restoreVars, graphVars, logVars>>

RunCommand ==
    \/ GatewayRun
    \/ DirectRun
    \/ ProcessExits
    \/ ExecutableAbsent
    \/ TimeoutElapses

SpecGatewayInit ==
    /\ impl = "new"
    /\ pc = "idle"
    /\ calls = <<>>
    /\ response = NoResponse
    /\ status_out = <<>>
    /\ save_attempts = <<>>
    /\ result = "None"
    /\ subdataset_changes = <<>>
    /\ idx = 1
    /\ commits = <<[p \in Paths |-> Absent]>>
    /\ index = [p \in Paths |-> Absent]
    /\ worktree = [p \in Paths |-> Absent]
    /\ file_path = "a.txt"
    /\ commit_hash = 1
    /\ porcelain = FALSE
    /\ snapshot = NoSnapshot
    /\ NoGraphState
    /\ history = <<>>

GatewayNext == RunCommand

\* every invocation that can end does end
SpecGateway == SpecGatewayInit /\ [][GatewayNext]_vars /\ WF_vars(GatewayNext)

-----------------------------------------------------------------------------
(* Properties of save_all_changes (commitAll), checked under SpecSave *)

\* the status query returned exit code 0
StatusOk == Len(calls) >= 1 /\ calls[1].argv = "datalad status" /\ calls[1].out = "ok"

\* the cascade was entered: the status report lists pending modifications
CascadeEntered == StatusOk /\ Len(status_out) > 0

WriteCalls == SelectSeq(calls, IsWrite)

\* every command so far returned an exit code
NoRaise == \A i \in 1..Len(calls) : ~Raises(calls[i].out)

IsSuccessEntry(e) == e[3] \in {"SUCCESS", "succeeded"}

IsFailureEntry(e) == e[3] \in {"FAILED", "failed"}

HasVerdict(e) == IsSuccessEntry(e) \/ IsFailureEntry(e)

\* C1: when the status query succeeds with an empty report, the handler
\* returns at once with a success result and an explanatory message, and
\* the status query is the only command it has run (no write command).
C1_NoChangesNoWrite ==
    (StatusOk /\ Len(status_out) = 0) =>
        /\ pc = "done"
        /\ response.success
        /\ response.code = 200
        /\ response.message \in {"No changes to save",
                                 "No changes to save - dataset is already clean"}
        /\ Len(calls) = 1
        /\ \A i \in 1..Len(calls) : ~IsWrite(calls[i])

C1_Witness ==
    /\ StatusOk
    /\ Len(status_out) = 0
    /\ pc = "done"
    /\ response.success
    /\ impl = "new"

\* a stage failed: one of its commands did not exit 0
StageFailed(s) == \E k \in 1..Len(calls) : calls[k].stage = s /\ calls[k].out # "ok"

\* C2: write commands are invoked in stage order 1, 2, 3, 4, and a command
\* of a later stage is invoked only if every earlier stage that ran a
\* command has failed.
C2_StagesOnlyAfterFailure ==
    \A i, j \in 1..Len(calls) :
        (i < j /\ IsWrite(calls[i]) /\ IsWrite(calls[j])) =>
            /\ calls[i].stage <= calls[j].stage
            /\ (calls[i].stage < calls[j].stage => StageFailed(calls[i].stage))

\* C3: when pending modifications exist and every write command that ran
\* exited non-zero, the result is a success that carries a warning and the
\* attempt log, and not the unqualified "All changes have been saved".
C3_AllFailedIsDegraded ==
    (/\ pc = "done"
     /\ CascadeEntered
     /\ Len(WriteCalls) >= 1
     /\ \A i \in 1..Len(WriteCalls) : WriteCalls[i].out = "nonzero") =>
        /\ response.success
        /\ response.warning
        /\ response.has_attempts
        /\ response.message # "All changes have been saved to DataLad"

\* the attempt log holds, in invocation order, one entry per command with
\* that command's verdict; a successful `git add` may share the entry of
\* the `git commit` that follows it (the forced stage/commit pair)
RECURSIVE LogMatches(_, _)
LogMatches(cs, es) ==
    IF Len(cs) = 0 THEN Len(es) = 0
    ELSE LET c == Head(cs) IN
         \/ /\ Len(es) > 0
            /\ IF c.out = "ok" THEN IsSuccessEntry(Head(es)) ELSE IsFailureEntry(Head(es))
            /\ LogMatches(Tail(cs), Tail(es))
         \/ /\ c.argv = "git add"
            /\ c.out = "ok"
            /\ LogMatches(Tail(cs), es)

\* C4: on every path through the cascade on which each command returned an
\* exit code, each invoked stage command has its outcome in the attempt
\* log, in invocation order, and the result carries that log.
C4_EveryOutcomeLogged ==
    (pc = "done" /\ CascadeEntered /\ NoRaise) =>
        /\ response.has_attempts
        /\ response.attempts = save_attempts
        /\ LogMatches(WriteCalls, SelectSeq(save_attempts, HasVerdict))

\* the recursive save exited non-zero and the flat save then exited 0
RecursiveFailedFlatOk ==
    /\ Len(WriteCalls) = 2
    /\ WriteCalls[1].argv = "datalad save -r" /\ WriteCalls[1].out = "nonzero"
    /\ WriteCalls[2].argv = "datalad save" /\ WriteCalls[2].cwd = Root
    /\ WriteCalls[2].target = "" /\ WriteCalls[2].out = "ok"

\* C5: when the recursive save fails with a non-zero exit and the flat save
\* succeeds, the result is a success and its attempt log has exactly two
\* entries: the recursive stage's failure, then the flat stage's success.
C5_RecursiveFailsFlatSucceeds ==
    (pc = "done" /\ RecursiveFailedFlatOk) =>
        /\ response.success
        /\ response.code = 200
        /\ response.has_attempts
        /\ Len(response.attempts) = 2
        /\ response.attempts[1][1] = "Recursive save" /\ IsFailureEntry(response.attempts[1])
        /\ response.attempts[2][1] = "Regular save" /\ IsSuccessEntry(response.attempts[2])

C5_Witness ==
    /\ pc = "done"
    /\ RecursiveFailedFlatOk
    /\ impl = "new"
    /\ Len(response.attempts) = 2

\* the commands the per-subunit stage is to run for the modified nested
\* units, without the final flat save
RECURSIVE PerUnitSaves(_)
PerUnitSaves(units) ==
    IF Len(units) = 0 THEN <<>>
    ELSE << <<"datalad save", Head(units), "">>, <<"datalad save", Root, Head(units)>> >>
             \o PerUnitSaves(Tail(units))

Stage3Calls == SelectSeq(calls, LAMBDA c : c.stage = 3)

\* C6: once the per-subunit stage has run to its end on a status report that
\* shows a modified nested unit, its commands are, for each such unit in the
\* report's order, a save inside
\* the unit and then a save of its reference from the parent, followed by
\* exactly one retry of the flat save.
C6_PerUnitThenFlatRetry ==
    (/\ pc = "done"
     /\ CascadeEntered
     /\ NoRaise
     /\ Len(WriteCalls) >= 2
     /\ WriteCalls[2].out = "nonzero"
     /\ Len(ParseSubdatasetChanges(status_out)) >= 1) =>
        [i \in 1..Len(Stage3Calls) |->
            <<Stage3Calls[i].argv, Stage3Calls[i].cwd, Stage3Calls[i].target>>]
          = PerUnitSaves(ParseSubdatasetChanges(status_out)) \o << <<"datalad save", Root, "">> >>

\* the dataset directory was there for every command run in it
HandleValid == \A i \in 1..Len(calls) : ~(calls[i].cwd = Root /\ calls[i].out = "nocwd")

\* C7: once the cascade is entered on a valid dataset handle, whatever way a
\* stage command fails, the handler does not return a failure result.
C7_FailuresCaught ==
    (pc = "done" /\ CascadeEntered /\ HandleValid) => response.success

\* C8: when stages 1 to 3 ran and every command of theirs exited non-zero, then for every
\* modified nested unit U of the status report the forced stage ran
\* `git add U` in the parent, followed by `git commit` when the add exited 0.
C8_ForcedCommitForEveryUnit ==
    (/\ pc = "done"
     /\ CascadeEntered
     /\ NoRaise
     /\ Len(Stage3Calls) >= 1
     /\ \A i \in 1..Len(WriteCalls) : WriteCalls[i].stage <= 3 => WriteCalls[i].out = "nonzero") =>
        \A unit \in Range(ParseSubdatasetChanges(status_out)) :
            \E i \in 1..Len(calls) :
                /\ calls[i].argv = "git add"
                /\ calls[i].cwd = Root
                /\ calls[i].target = unit
                /\ calls[i].out = "ok" =>
                     /\ i < Len(calls)
                     /\ calls[i + 1].argv = "git commit"
                     /\ calls[i + 1].cwd = Root

-----------------------------------------------------------------------------
(* Properties of restore_file_to_commit (restore), checked under SpecRestore *)

\* the revision-scoped content query `git show <rev>:<path>` failed
ShowFailed == Len(calls) >= 1 /\ calls[1].argv = "git show" /\ calls[1].out # "ok"

\* C9: when the revision-scoped content query fails, restore raises the
\* file-not-in-revision error at once: the query is the only command run
\* (no checkout, add, commit or datalad save), and history, index and
\* working tree are as restore found them.
C9_NotInRevisionNoMutation ==
    ShowFailed =>
        /\ pc = "done"
        /\ response.kind = "GitOperationError"
        /\ response.reason = "not_in_commit"
        /\ Len(calls) = 1
        /\ worktree = snapshot.worktree
        /\ index = snapshot.index
        /\ commits = snapshot.commits

C9_Witness ==
    /\ ShowFailed
    /\ pc = "done"
    /\ ~FileInRev(commits, commit_hash, file_path)
    /\ commit_hash <= Len(commits)
    /\ worktree[file_path] # Absent
    /\ response.reason = "not_in_commit"

\* the content `git show <commit_hash>:<file_path>` printed when restore began
RevisionContent == snapshot.commits[commit_hash][file_path]

\* C10: after restore returns success, the working tree holds at file_path
\* the content of commit_hash:file_path, and so does HEAD when restore has
\* made a commit.
C10_RestoredContentMatches ==
    (pc = "done" /\ response.kind = "success") =>
        /\ worktree[file_path] = RevisionContent
        /\ Len(commits) > Len(snapshot.commits) =>
               HeadTree(commits)[file_path] = RevisionContent

C10_Witness ==
    /\ pc = "done"
    /\ response.kind = "success"
    /\ commit_hash < Len(snapshot.commits)
    /\ HeadTree(snapshot.commits)[file_path] # RevisionContent
    /\ snapshot.worktree[file_path] # RevisionContent
    /\ Len(commits) > Len(snapshot.commits)
    /\ worktree[file_path] = RevisionContent

\* the last command restore ran, if it was argv
LastCallIs(argv) == Len(calls) >= 1 /\ calls[Len(calls)].argv = argv

\* C11: restore invokes `git commit` only when the index holds staged
\* changes (the index differs from HEAD): a commit command that did not
\* record a commit was not run on an index equal to HEAD, whatever other
\* untracked or unstaged changes the working tree holds.
C11_CommitOnlyWhenStaged ==
    (LastCallIs("git commit") /\ calls[Len(calls)].out # "ok") =>
        index # HeadTree(commits)

\* the commands of a restore in which every plain-VCS step ran and exited 0
\* and the final datalad save was run
FullRestoreCommands ==
    <<"git show", "git checkout", "git add", "git status --porcelain",
      "git commit", "datalad save">>

PlainStepsSucceeded ==
    /\ Len(calls) = Len(FullRestoreCommands)
    /\ \A i \in 1..(Len(calls) - 1) : calls[i].out = "ok"

\* C12: when checkout, verification, staging and `git commit` succeeded and
\* the final `datalad save` fails (non-zero exit or exception), restore
\* returns success carrying the restored path and revision; the failed save
\* is the last command, so nothing undoes the earlier steps: the revision's
\* content stays in working tree, index and the new commit.
C12_SaveFailureKeepsRestore ==
    (/\ pc = "done"
     /\ LastCallIs("datalad save")
     /\ calls[Len(calls)].out # "ok"
     /\ PlainStepsSucceeded) =>
        /\ response.kind = "success"
        /\ response.file_path = file_path
        /\ response.commit_hash = commit_hash
        /\ [i \in 1..Len(calls) |-> calls[i].argv] = FullRestoreCommands
        /\ worktree[file_path] = RevisionContent
        /\ index[file_path] = RevisionContent
        /\ Len(commits) = Len(snapshot.commits) + 1
        /\ HeadTree(commits)[file_path] = RevisionContent

C12_Witness ==
    /\ pc = "done"
    /\ LastCallIs("datalad save")
    /\ calls[Len(calls)].out = "notfound"
    /\ PlainStepsSucceeded
    /\ HeadTree(snapshot.commits)[file_path] # RevisionContent
    /\ response.kind = "success"
    /\ HeadTree(commits)[file_path] = RevisionContent

-----------------------------------------------------------------------------
(* Properties of validate_dataset and create_dataflow_from_dataset          *)
(* (synthesize), checked under SpecGraph                                    *)

\* the dataset directory lacks .git or .datalad
HandleInvalid == ~has_git \/ ~has_datalad

\* C13: on a dataset path that lacks .git or .datalad, validation reports
\* not valid, and synthesize fails with the dataset error before it runs any
\* external command: it never gets past its entry check.
C13_InvalidHandleFailsFast ==
    (HandleInvalid /\ pc # "idle") =>
        /\ pc = "done"
        /\ \/ response.kind = "validation" /\ ~response.valid
           \/ response.kind = "DatasetError" /\ calls = <<>>

\* a top-level entry of the dataset that is a stage directory
IsStageDir(e) == e.type = "directory" /\ e.name \in StageNames

\* synthesize ran on an existing dataset path and has ended
SynthEnded ==
    /\ pc = "done"
    /\ response.kind \in {"graph", "DatasetError"}
    /\ response.kind = "DatasetError" => response.reason # "path_missing"

\* the status classification of a directory fails: a status or index
\* command fails, or a file of the directory cannot be inspected
ClassificationFails(c) == git_out # "ok" \/ datalad_out # "ok" \/ c.locked > 0

\* the node synthesize made for the existing stage directory `name`
IsStageNodeOf(n, name) == n.type = name /\ "tracked_files" \in DOMAIN n

\* C14: when the status classification of a stage directory fails,
\* synthesize still returns a graph, and the graph holds the root node and
\* the stage node of every existing stage directory.
C14_ClassificationFailureTolerated ==
    (SynthEnded /\ \E i \in 1..Len(dataset) :
                      IsStageDir(dataset[i]) /\ ClassificationFails(dataset[i].files)) =>
        /\ response.kind = "graph"
        /\ \E j \in 1..Len(response.nodes) : response.nodes[j].type = "dataset_root"
        /\ \A i \in 1..Len(dataset) :
               IsStageDir(dataset[i]) =>
                   \E j \in 1..Len(response.nodes) :
                       IsStageNodeOf(response.nodes[j], dataset[i].name)

\* synthesize has returned its graph
GraphReturned == pc = "done" /\ response.kind = "graph"

\* the nodes of the returned graph made for existing stage directories
StageNodes ==
    {n \in Range(response.nodes) : "tracked_files" \in DOMAIN n}

\* the status classifier's counts for the directory of stage node n
ClassifierCounts(n) ==
    LET e == CHOOSE e \in Range(dataset) : e.name = n.type
    IN  GetStageFiles(e.files, git_out, datalad_out, has_git).metadata

\* C15: every stage node of an existing directory carries non-negative
\* counts equal to the status classifier's counts for the directory, and
\* its file_count is tracked_files + untracked_files, also when files lie
\* in subdirectories of the stage.
C15_CountsMatchClassifier ==
    GraphReturned =>
        \A n \in StageNodes :
            /\ n.file_count >= 0 /\ n.tracked_files >= 0
            /\ n.untracked_files >= 0 /\ n.deleted_files >= 0
            /\ n.file_count = ClassifierCounts(n).file_count
            /\ n.tracked_files = ClassifierCounts(n).tracked_files
            /\ n.untracked_files = ClassifierCounts(n).untracked_files
            /\ n.deleted_files = ClassifierCounts(n).deleted_files
            /\ n.file_count = n.tracked_files + n.untracked_files

\* the placeholder nodes of the returned graph: stage nodes made for no directory
Placeholders ==
    {j \in 1..Len(response.nodes) :
        /\ response.nodes[j].type \in StageNames
        /\ "tracked_files" \notin DOMAIN response.nodes[j]}

\* the dataset holds the directory of a stage
DirPresent(name) == \E i \in 1..Len(dataset) : IsStageDir(dataset[i]) /\ dataset[i].name = name

\* C16: in every returned graph, each of the five stage types whose
\* directory is absent has exactly one placeholder node, with file_count 0,
\* and a stage whose directory is present has no placeholder.
C16_PlaceholderPerAbsentStage ==
    GraphReturned =>
        \A name \in StageNames :
            LET ph == {j \in Placeholders : response.nodes[j].type = name}
            IN  IF DirPresent(name)
                THEN ph = {}
                ELSE /\ Cardinality(ph) = 1
                     /\ \A j \in ph : response.nodes[j].file_count = 0

\* results/ with one tracked and one untracked file directly in it
OneTrackedOneUntracked ==
    [tracked |-> 1, untracked |-> 1, nested |-> 0, deleted |-> 0, locked |-> 0]

\* synthesize returned the graph of a repository whose only stage directory
\* is results/ with one tracked and one untracked file; git answers
ResultsOnlyScenario ==
    /\ GraphReturned
    /\ has_git /\ git_out = "ok"
    /\ \E i \in 1..Len(dataset) : dataset[i].name = "results"
    /\ \A i \in 1..Len(dataset) :
           IsStageDir(dataset[i]) => dataset[i] = DirEntry("results", OneTrackedOneUntracked)

\* the graph has the root node, the results node with tracked_files = 1 and
\* untracked_files = 1, and a placeholder plots node with file_count = 0
ResultsOnlyNodes ==
    /\ \E n \in Range(response.nodes) : n.type = "dataset_root" /\ n.is_central
    /\ \E n \in StageNodes :
           n.type = "results" /\ n.tracked_files = 1 /\ n.untracked_files = 1
    /\ \E j \in Placeholders :
           response.nodes[j].type = "plots" /\ response.nodes[j].file_count = 0

AllEdgesFromRoot == \A e \in Range(response.edges) : e.from = 1

RootIds == {n.id : n \in {m \in Range(response.nodes) : m.type = "dataset_root"}}

\* the positions of the edges that point at node id
Incoming(id) == {k \in 1..Len(response.edges) : response.edges[k].to = id}

\* C18: every returned graph is a star: every edge originates at the root
\* node and is labeled 'contains', every other node has exactly one
\* incoming edge, the root has none, and there are as many edges as nodes
\* minus one.
C18_StarGraph ==
    GraphReturned =>
        /\ \A e \in Range(response.edges) : e.from \in RootIds /\ e.label = "contains"
        /\ \A n \in Range(response.nodes) :
               Cardinality(Incoming(n.id)) = IF n.id \in RootIds THEN 0 ELSE 1
        /\ Len(response.edges) = Len(response.nodes) - 1

C18_Witness ==
    /\ GraphReturned
    /\ Cardinality(StageNodes) = 2
    /\ Placeholders # {}
    /\ Len(response.edges) = 4

\* C19: every returned graph holds exactly one node whose is_central flag
\* is set.
C19_OneCentralNode ==
    GraphReturned =>
        Cardinality({j \in 1..Len(response.nodes) : response.nodes[j].is_central}) = 1

C19_Witness ==
    /\ GraphReturned
    /\ Len(dataset) = 3
    /\ StageNodes # {}
    /\ Cardinality(Placeholders) = 2
    /\ response.nodes[1].is_central

\* C20: the color of every stage node of an existing directory follows
\* deleted > untracked > clean: the alert color when its deleted count is
\* positive, whatever the untracked count; else the warning color when its
\* untracked count is positive; else the base color of the stage.
C20_ColorPriority ==
    GraphReturned =>
        \A n \in StageNodes :
            /\ n.deleted_files > 0 => n.color = "#FF6B6B"
            /\ (n.deleted_files = 0 /\ n.untracked_files > 0) => n.color = "#FFA500"
            /\ (n.deleted_files = 0 /\ n.untracked_files = 0) => n.color = BaseColor(n.type)

C20_Witness ==
    /\ GraphReturned
    /\ \E n \in StageNodes :
           /\ n.deleted_files = 1
           /\ n.untracked_files = 1
           /\ n.color = "#FF6B6B"

\* the names of the dataset's stage directories, in directory-tree order
StageDirNames ==
    LET dirs == SelectSeq(dataset, IsStageDir)
    IN  [i \in 1..Len(dirs) |-> dirs[i].name]

\* C22: in every returned graph the node ids are 1..n without gap or
\* duplicate: the root has id 1, the nodes of the existing stage
\* directories follow in directory-tree order, the placeholders come last;
\* every edge refers to ids of nodes of the graph.
C22_SequentialNodeIds ==
    GraphReturned =>
        LET ns == response.nodes
            k == Len(StageDirNames)
        IN  /\ \A j \in 1..Len(ns) : ns[j].id = j
            /\ ns[1].type = "dataset_root"
            /\ Len(ns) >= 1 + k
            /\ \A i \in 1..k : IsStageNodeOf(ns[1 + i], StageDirNames[i])
            /\ \A j \in (2 + k)..Len(ns) : j \in Placeholders
            /\ \A e \in Range(response.edges) :
                   e.from \in 1..Len(ns) /\ e.to \in 1..Len(ns)

C22_Witness ==
    /\ GraphReturned
    /\ StageDirNames = <<"plots", "raw_data">>
    /\ Len(dataset) = 3
    /\ dataset[2].name = "docs"
    /\ response.nodes[3].type = "raw_data"
    /\ response.nodes[5].id = 5

\* the status and index queries
ReadCommands == {"datalad status", "git ls-files"}

-----------------------------------------------------------------------------
(* Properties of repeated create_dataflow_from_dataset calls, checked under *)
(* SpecGraphTwice                                                          *)

\* the counts a node carries
NodeCounts(n) ==
    IF "tracked_files" \in DOMAIN n
    THEN <<n.file_count, n.tracked_files, n.untracked_files, n.deleted_files>>
    ELSE <<n.file_count>>

\* the (label, type, color, counts) tuples of a node list, in its order
NodeTuples(ns) == [i \in 1..Len(ns) |-> <<ns[i].label, ns[i].type, ns[i].color, NodeCounts(ns[i])>>]

\* a second call has returned its graph after a first one did
SecondGraphReturned == pc = "done" /\ response.kind = "graph" /\ prev_nodes # <<>>

-----------------------------------------------------------------------------
(* Properties of command invocations, checked under SpecGateway *)

\* the invocation in hand is one that save_all_changes, restore or the
\* status classifier issues: directly, or through get_status
OperationInvocation ==
    /\ calls # <<>>
    /\ calls[1].caller \in {"commitAll", "restore", "classifier", "get_status"}

\* C24: every command that commitAll, restore and the status classifier
\* invoke carries a finite timeout, so the invocation ends, by exit, error
\* or timeout, also when the process never exits.
C24_InvocationsTimeOut ==
    /\ [](OperationInvocation => calls[1].timeout.finite)
    /\ (pc = "running" /\ OperationInvocation) ~> (pc = "returned")

\* the modes and outcomes of the invocation, for _run_command
ViaGateway == pc = "returned" /\ calls[1].via = "gateway"

\* C25: _run_command with check=True raises the command-failed error on
\* every non-zero exit; with check=False it returns the result with the
\* non-zero return code and the captured output and does not raise; an
\* absent executable and an elapsed timeout raise in both modes, and the
\* timeout error carries the output read so far.
C25_GatewayStrictness ==
    ViaGateway =>
        LET inv == calls[1] IN
        /\ (inv.proc.kind = "exits" /\ inv.proc.returncode # 0 /\ inv.check) =>
               /\ response.raised
               /\ response.error = "Command failed"
               /\ response.returncode = inv.proc.returncode
        /\ (inv.proc.kind = "exits" /\ inv.proc.returncode # 0 /\ ~inv.check) =>
               /\ ~response.raised
               /\ response.returncode = inv.proc.returncode
               /\ response.stdout = IF inv.capture_output THEN inv.proc.out ELSE ""
        /\ inv.proc.kind = "absent" =>
               response.raised /\ response.error = "Command not found"
        /\ inv.proc.kind = "never_exits" =>
               /\ response.raised
               /\ response.error = "Command timed out"
               /\ response.stdout = IF inv.capture_output THEN inv.proc.out ELSE ""

C25_Witness ==
    /\ ViaGateway
    /\ calls[1].caller = "get_metadata"
    /\ ~calls[1].check
    /\ calls[1].proc.kind = "exits"
    /\ calls[1].proc.returncode = 128
    /\ calls[1].proc.out = "text"
    /\ calls[1].capture_output
    /\ ~response.raised
    /\ response.returncode = 128

-----------------------------------------------------------------------------
(* History queries: get_commit_history, get_detailed_git_log and
   get_commit_files of git_operations.py.  Each runs one git command and
   parses its standard output line by line. *)

MaxLog == 2          \* commits in the dataset's history
MaxBodyLines == 2    \* lines of a commit's body text
MaxFields == 6       \* '|'-separated pieces of one line of body text
MaxChanges == 2      \* files changed by the commit get_commit_files shows

LogMin(a, b) == IF a <= b THEN a ELSE b

\* a line of text as its pieces between '|' characters: <<"w">> has no '|',
\* <<"w", "w">> is "w|w"
Texts(k) == UNION {[1..n -> {"w"}] : n \in 1..k}

Bodies == UNION {[1..n -> Texts(MaxFields)] : n \in 0..MaxBodyLines}

FilePaths == {"f1", "f2", "f3"}

\* one file changed by a commit; from is the old name of a renamed file,
\* on_disk whether the path exists in the working tree when it is queried
Changes ==
    {ch \in [status : {"A", "M", "D", "R"}, path : FilePaths, from : {"", "old"}, on_disk : BOOLEAN] :
        (ch.status = "R") <=> (ch.from = "old")}

ChangeLists ==
    {cs \in UNION {[1..n -> Changes] : n \in 0..MaxChanges} :
        \A i, j \in 1..Len(cs) : i # j => cs[i].path # cs[j].path}

FullHash(i) == "H" \o ToString(i)

ShortHash(i) == "h" \o ToString(i)

QueryOutcomes == {"ok", "nonzero"}

\* `-n <limit>` cuts the listing; without the option git lists every commit
NoLimit == [given |-> FALSE, value |-> 0]

LimitOption(limit) == [given |-> TRUE, value |-> limit]

Listed(positions, n) ==
    IF n.given THEN SubSeq(positions, 1, LogMin(n.value, Len(positions))) ELSE positions

\* the positions in history of the commits that touch path, newest first
RECURSIVE Touching(_, _, _)
Touching(h, i, path) ==
    IF i > Len(h) THEN <<>>
    ELSE (IF \E k \in 1..Len(h[i].changes) : h[i].changes[k].path = path
          THEN <<i>> ELSE <<>>) \o Touching(h, i + 1, path)

AllPositions(h) == [i \in 1..Len(h) |-> i]

\* --pretty=format:%H|%h|%an|%ae|%ad|%s|%b for commit i: the first body line
\* continues the header line, every further body line is a line of its own,
\* and a non-empty body ends in a line break
PrettyLines(i, c) ==
    IF c.body = <<>>
    THEN << <<FullHash(i), ShortHash(i), "an", "ae", "ad">> \o c.subject \o <<"">> >>
    ELSE << <<FullHash(i), ShortHash(i), "an", "ae", "ad">> \o c.subject \o c.body[1] >>
         \o SubSeq(c.body, 2, Len(c.body)) \o << <<"">> >>

RECURSIVE PrettyOutput(_, _, _)
PrettyOutput(h, positions, k) ==
    IF k > Len(positions) THEN <<>>
    ELSE PrettyLines(positions[k], h[positions[k]]) \o PrettyOutput(h, positions, k + 1)

\* `if line.strip()`
Blank(parts) == parts = <<"">>

\* line.split('|') and the `len(parts) >= 6` branch
DetailedRecord(parts) ==
    [full_hash |-> parts[1], short_hash |-> parts[2], author_name |-> parts[3],
     author_email |-> parts[4], date |-> parts[5], message |-> parts[6],
     body |-> IF Len(parts) > 6 THEN parts[7] ELSE ""]

ParseDetailed(lines) ==
    LET kept == SelectSeq(lines, LAMBDA parts : ~Blank(parts) /\ Len(parts) >= 6)
    IN  [k \in 1..Len(kept) |-> DetailedRecord(kept[k])]

\* --oneline prints "<short hash> <subject>"; line.split(' ', 1) cuts at the
\* first blank, which follows the hash
OnelineOutput(h, positions) ==
    [k \in 1..Len(positions) |-> <<ShortHash(positions[k]), h[positions[k]].subject>>]

\* _get_full_hash: `git rev-parse <short hash>`, and the short hash itself
\* when git does not resolve it
GetFullHash(h, short) ==
    IF \E i \in 1..Len(h) : ShortHash(i) = short
    THEN FullHash(CHOOSE i \in 1..Len(h) : ShortHash(i) = short)
    ELSE short

ParseOneline(h, lines) ==
    LET kept == SelectSeq(lines, LAMBDA parts : Len(parts) = 2)
    IN  [k \in 1..Len(kept) |->
            [hash |-> kept[k][1], message |-> kept[k][2],
             full_hash |-> GetFullHash(h, kept[k][1])]]

\* --name-status prints "<status>\t<path>", and for a renamed file
\* "R<score>\t<old path>\t<new path>"
NameStatusLine(ch) ==
    IF ch.status = "R" THEN <<"R100", ch.from, ch.path>> ELSE <<ch.status, ch.path>>

NameStatusOutput(c) == [k \in 1..Len(c.changes) |-> NameStatusLine(c.changes[k])]

ChangeType(status) ==
    CASE status = "A" -> "Added"
      [] status = "M" -> "Modified"
      [] status = "D" -> "Deleted"
      [] status = "R" -> "Renamed"
      [] OTHER -> status

NoSize == [known |-> FALSE]

KnownSize == [known |-> TRUE]

OnDisk(c, path) == \E k \in 1..Len(c.changes) : c.changes[k].path = path /\ c.changes[k].on_disk

\* line.split('\t') and the `len(parts) == 2` branch
FileRecord(c, parts) ==
    [path |-> parts[2], status |-> parts[1], change_type |-> ChangeType(parts[1]),
     size |-> IF parts[1] # "D" /\ OnDisk(c, parts[2]) THEN KnownSize ELSE NoSize]

ParseNameStatus(c, lines) ==
    LET kept == SelectSeq(lines, LAMBDA parts : Len(parts) = 2)
    IN  [k \in 1..Len(kept) |-> FileRecord(c, kept[k])]

GitOperationError(reason) == [kind |-> "GitOperationError", reason |-> reason]

QueryResponse(query, limit, path, records) ==
    [kind |-> "records", query |-> query, limit |-> limit, file_path |-> path,
     records |-> records]

QueryCall(argv, n, path) == [argv |-> argv, n |-> n, path |-> path]

\* get_detailed_git_log(dataset_path, limit)
GetDetailedGitLog ==
    /\ pc = "idle"
    /\ pc' = "done"
    /\ \E dataset_exists \in BOOLEAN, limit \in 1..(MaxLog + 1), o \in QueryOutcomes :
         IF ~dataset_exists
         THEN /\ calls' = <<>>
              /\ response' = DatasetError("path_missing")
         ELSE /\ calls' = <<QueryCall("git log --pretty", LimitOption(limit), None)>>
              /\ response' =
                   IF o = "nonzero" THEN GitOperationError("detailed_git_log")
                   ELSE QueryResponse("get_detailed_git_log", limit, None,
                            ParseDetailed(PrettyOutput(history,
                                Listed(AllPositions(history), LimitOption(limit)), 1)))
    /\ UNCHANGED <<saveVars, restoreVars, graphVars, logVars>>

\* get_commit_history(dataset_path, file_path, limit): the command for a
\* file carries no -n option
GetCommitHistory ==
    /\ pc = "idle"
    /\ pc' = "done"
    /\ \E dataset_exists \in BOOLEAN, limit \in 1..(MaxLog + 1),
          path \in {None, "f1"}, o \in QueryOutcomes :
         IF ~dataset_exists
         THEN /\ calls' = <<>>
              /\ response' = DatasetError("path_missing")
         ELSE LET n == IF path # None THEN NoLimit ELSE LimitOption(limit)
                  positions == IF path # None THEN Touching(history, 1, path)
                               ELSE AllPositions(history)
              IN  /\ calls' = <<QueryCall(IF path # None THEN "git log --oneline --follow"
                                          ELSE "git log --oneline", n, path)>>
                  /\ response' =
                       IF o = "nonzero" THEN DatasetError("path_missing")
                       ELSE QueryResponse("get_commit_history", limit, path,
                                ParseOneline(history, OnelineOutput(history, Listed(positions, n))))
    /\ UNCHANGED <<saveVars, restoreVars, graphVars, logVars>>

\* get_commit_files(dataset_path, commit_hash) for the newest commit
GetCommitFiles ==
    /\ pc = "idle"
    /\ pc' = "done"
    /\ \E dataset_exists \in BOOLEAN, o \in QueryOutcomes :
         IF ~dataset_exists
         THEN /\ calls' = <<>>
              /\ response' = DatasetError("path_missing")
         ELSE /\ calls' = <<QueryCall("git show --name-status", NoLimit, None)>>
              /\ response' =
                   IF o = "nonzero" THEN GitOperationError("commit_files")
                   ELSE QueryResponse("get_commit_files", 0, None,
                            ParseNameStatus(history[1], NameStatusOutput(history[1])))
    /\ UNCHANGED <<saveVars, restoreVars, graphVars, logVars>>

NoQueryState ==
    /\ impl = "new"
    /\ pc = "idle"
    /\ calls = <<>>
    /\ response = NoResponse
    /\ status_out = <<>>
    /\ save_attempts = <<>>
    /\ result = "None"
    /\ subdataset_changes = <<>>
    /\ idx = 1
    /\ commits = <<[p \in Paths |-> Absent]>>
    /\ index = [p \in Paths |-> Absent]
    /\ worktree = [p \in Paths |-> Absent]
    /\ file_path = "a.txt"
    /\ commit_hash = 1
    /\ porcelain = FALSE
    /\ snapshot = NoSnapshot
    /\ NoGraphState

\* a history of one to MaxLog commits with any subject and body text; a
\* commit may or may not touch the file the history is asked for
LogCommits ==
    [subject : Texts(2), body : Bodies,
     changes : {<<>>, <<[status |-> "M", path |-> "f1", from |-> "", on_disk |-> TRUE]>>}]

SpecHistoryInit ==
    /\ NoQueryState
    /\ history \in UNION {[1..n -> LogCommits] : n \in 1..MaxLog}

HistoryNext == GetDetailedGitLog \/ GetCommitHistory

SpecHistory == SpecHistoryInit /\ [][HistoryNext]_vars

\* one commit with any list of changed files
SpecCommitFilesInit ==
    /\ NoQueryState
    /\ \E cs \in ChangeLists :
         history = <<[subject |-> <<"w">>, body |-> <<>>, changes |-> cs]>>

CommitFilesNext == GetCommitFiles

SpecCommitFiles == SpecCommitFilesInit /\ [][CommitFilesNext]_vars

-----------------------------------------------------------------------------
(* Properties of the history queries *)

Returned(query) == pc = "done" /\ response.kind = "records" /\ response.query = query

\* C26: get_detailed_git_log with limit L on a history of N commits returns
\* exactly min(L, N) records, one per commit, in the order git lists them,
\* whatever the subject and body text of the commits
C26_OneRecordPerCommit ==
    Returned("get_detailed_git_log") =>
        /\ Len(response.records) = LogMin(response.limit, Len(history))
        /\ \A k \in 1..Len(response.records) : response.records[k].full_hash = FullHash(k)

\* C27: get_commit_files returns exactly one record for every file the
\* commit changed, its kind one of Added, Modified, Deleted and Renamed and
\* its size absent for a deleted file; a renamed file is not left out
C27_OneRecordPerChangedFile ==
    Returned("get_commit_files") =>
        /\ Len(response.records) = Len(history[1].changes)
        /\ \A k \in 1..Len(response.records) :
             /\ response.records[k].path = history[1].changes[k].path
             /\ response.records[k].change_type = ChangeType(history[1].changes[k].status)
             /\ response.records[k].change_type \in {"Added", "Modified", "Deleted", "Renamed"}
             /\ response.records[k].change_type = "Deleted" => ~response.records[k].size.known

\* C28: get_commit_history returns at most `limit` commits, both without
\* and with a file path
C28_AtMostLimit ==
    Returned("get_commit_history") => Len(response.records) <= response.limit

-----------------------------------------------------------------------------
(* Properties of restore_file_to_commit: what it records and what it reports *)

RestoreReturned == pc = "done" /\ snapshot # NoSnapshot

\* a path whose index or working-tree content differed from HEAD when
\* restore was entered
PendingAtEntry(path) ==
    \/ snapshot.index[path] # HeadTree(snapshot.commits)[path]
    \/ snapshot.worktree[path] # HeadTree(snapshot.commits)[path]

\* C29: restore persists only the restored path: a pending modification of
\* another path (modified, staged or untracked) is still pending when restore
\* returns; no commit made by restore, through git or through datalad,
\* changes that path
C29_OnlyRestoredPathPersisted ==
    RestoreReturned =>
        \A path \in Paths \ {file_path} :
            PendingAtEntry(path) =>
                \A k \in Len(snapshot.commits)..Len(commits) :
                    commits[k][path] = HeadTree(snapshot.commits)[path]

PlainStepFailed ==
    \E i \in 1..Len(calls) :
        calls[i].argv \in {"git add", "git commit"} /\ calls[i].out = "nonzero"

\* C30: restore returns success only if the stage command and the commit
\* command did not exit non-zero
C30_SuccessOnlyIfPlainStepsOk ==
    (RestoreReturned /\ PlainStepFailed) => response.kind # "success"

====
